---- MODULE Spec2Model ----
(***************************************************************************)
(* Voice-session lifecycle of the Discord transcription bot.               *)
(*                                                                         *)
(* The model follows src/src/voiceStateManager.ts (the current revision,   *)
(* lines 485-1021), src/src/createListeningStream.ts, the drain of         *)
(* src/src/transcriptManager.ts, the slash-command handlers of             *)
(* src/unnamed/part_004 and the SIGTERM handler of src/src/bot.ts.         *)
(*                                                                         *)
(* Node runs every handler on one event loop: an action of this module is  *)
(* the code a handler runs between two suspension points (awaits, timers). *)
(***************************************************************************)
EXTENDS Integers, Sequences, FiniteSets, TLC

\* ---------------------------------------------------------------- universe
AllGuilds == {"g1", "g2", "g3", "g4", "g5", "g6"}
Guilds == {"g1"}
CapGuilds == AllGuilds
IsoGuilds == {"g1", "g2"}
ManagerGuilds == {"g1", "g2"}
Users == {"u1", "u2"}
Bots == {"b1"}
Members == Users \cup Bots
Channels == {"c1"}
AutoChannels == {"c1", "c2"}
NoChannel == "none"
DisplayNames == {"Ann", "Bob"}
Texts == {"hi", "swap"}

\* ------------------------------------------------------------------ bounds
MaxSessions == 2      \* sessions stored per guild in one run
MaxStarts == 2        \* start attempts in flight per guild
MaxConns == 2         \* voice connections created per guild in one run
MaxTimers == 1        \* delayed stops pending per guild
MaxCmds == 1          \* stop commands between deferReply and stopRecording
MaxCancels == 1       \* /cancel commands per guild in one run
MaxSpeaks == 1        \* speaking-start handlers in flight per guild
MaxStreams == 1       \* listening streams created per guild in one run
MaxFragments == 1     \* fragments held by a guild's accumulator
MaxDisconnects == 1   \* Disconnected events per guild in one run
MaxEvents == 5        \* external events handled in one run
CapEvents == 12       \* external events handled in one run of SpecCap
SpeakEvents == 4      \* external events handled in one run of SpecSpeak
SeqEvents == 7        \* external events handled in one run of SpecSeq
WatchEvents == 5      \* external events handled in one run of SpecWatch
IsoEvents == 6        \* external events handled in one run of SpecIso
CancelEvents == 5     \* external events handled in one run of SpecCancel
AutoEvents == 5       \* external events handled in one run of SpecAuto
FrameEvents == 3      \* external events handled in one run of SpecFrames
MaxFrames == 3        \* audio frames of one stream
MaxSummaryLen == 7    \* characters of a summary
CharLimit == 6        \* the character limit passed to chunkSectionsForDiscord
MaxMessages == 3      \* fragments appended in one run of SpecDrain
MaxClock == 2         \* milliseconds that pass in one run of SpecDrain
MaxChunks == 2        \* chunks of one chunked recording
MaxManagerStops == 2  \* stop_recording calls completed per guild in one run
MaxDrains == 2        \* generateTranscript calls in one run of SpecDrain

\* ------------------------------------------------------- program constants
AutoStartThreshold == 2
MaxConcurrentRecordings == 5

VARIABLES
    voice,              \* guild -> member -> voice channel (Discord's cache)
    activeRecordings,   \* guild -> index into sessions[guild], 0 = no entry
    sessions,           \* guild -> RecordingData objects ever created
    connections,        \* guild -> VoiceConnection objects ever created
    voiceConnection,    \* guild -> tracked connection (getVoiceConnection), 0 = none
    starts,             \* guild -> start attempts suspended at an await
    stopTimers,         \* guild -> pending setTimeout(stopRecording, 2000), each with
                        \* the session registered when it was set
    stopCmds,           \* guild -> stop commands suspended at deferReply
    stops,              \* guild -> stopRecording invocations suspended at an await
    reconnects,         \* guild -> Disconnected handlers waiting for the reconnect race
    disconnects,        \* guild -> Disconnected events seen so far
    speaks,             \* guild -> speaking-start handlers suspended at an await
    streams,            \* guild -> listening streams not yet closed
    transcripts,        \* guild -> accumulated fragments (the transcripts map)
    startResult,        \* guild -> last value returned by startManualRecording
    unknownCommands,    \* guild -> interactions answered with 'Unknown command'
    proc,               \* "running", "stopping" (SIGTERM handler awaiting), "exited"
    budget,             \* number of external events the run may still handle
    guildTranscripts,   \* one guild's Map userId -> TranscriptData, in insertion order
    now,                \* the clock read by new Date(), in milliseconds
    pending,            \* the fragments appended since the last generateTranscript
    results,            \* what the generateTranscript calls returned, with their input
    delivery,           \* one call of sendTranscriptAndSummary
    manager             \* the ChunkedRecordingManager of the chunked variant

vars == <<voice, activeRecordings, sessions, connections, voiceConnection, starts,
          stopTimers, stopCmds, stops, reconnects, disconnects, speaks, streams,
          transcripts, startResult, unknownCommands, proc, budget,
          guildTranscripts, now, pending, results, delivery, manager>>

\* the variables of the transcript map in detail
drainVars == <<guildTranscripts, now, pending, results>>

\* -------------------------------------------------- per-guild state record
St(g) ==
    [voice |-> voice[g], active |-> activeRecordings[g], sessions |-> sessions[g],
     conns |-> connections[g], vc |-> voiceConnection[g], starts |-> starts[g],
     timers |-> stopTimers[g], cmds |-> stopCmds[g], stops |-> stops[g],
     reconnects |-> reconnects[g], disconnects |-> disconnects[g],
     speaks |-> speaks[g], streams |-> streams[g],
     transcripts |-> transcripts[g], result |-> startResult[g],
     unknown |-> unknownCommands[g]]

CommitAll(f) ==
    /\ voice' = [g \in AllGuilds |-> f[g].voice]
    /\ activeRecordings' = [g \in AllGuilds |-> f[g].active]
    /\ sessions' = [g \in AllGuilds |-> f[g].sessions]
    /\ connections' = [g \in AllGuilds |-> f[g].conns]
    /\ voiceConnection' = [g \in AllGuilds |-> f[g].vc]
    /\ starts' = [g \in AllGuilds |-> f[g].starts]
    /\ stopTimers' = [g \in AllGuilds |-> f[g].timers]
    /\ stopCmds' = [g \in AllGuilds |-> f[g].cmds]
    /\ stops' = [g \in AllGuilds |-> f[g].stops]
    /\ reconnects' = [g \in AllGuilds |-> f[g].reconnects]
    /\ disconnects' = [g \in AllGuilds |-> f[g].disconnects]
    /\ speaks' = [g \in AllGuilds |-> f[g].speaks]
    /\ streams' = [g \in AllGuilds |-> f[g].streams]
    /\ transcripts' = [g \in AllGuilds |-> f[g].transcripts]
    /\ startResult' = [g \in AllGuilds |-> f[g].result]
    /\ unknownCommands' = [g \in AllGuilds |-> f[g].unknown]
    /\ UNCHANGED drainVars
    /\ UNCHANGED delivery
    /\ UNCHANGED manager

Commit(g, s) ==
    \E r \in {s} :
        /\ voice' = [voice EXCEPT ![g] = r.voice]
        /\ activeRecordings' = [activeRecordings EXCEPT ![g] = r.active]
        /\ sessions' = [sessions EXCEPT ![g] = r.sessions]
        /\ connections' = [connections EXCEPT ![g] = r.conns]
        /\ voiceConnection' = [voiceConnection EXCEPT ![g] = r.vc]
        /\ starts' = [starts EXCEPT ![g] = r.starts]
        /\ stopTimers' = [stopTimers EXCEPT ![g] = r.timers]
        /\ stopCmds' = [stopCmds EXCEPT ![g] = r.cmds]
        /\ stops' = [stops EXCEPT ![g] = r.stops]
        /\ reconnects' = [reconnects EXCEPT ![g] = r.reconnects]
        /\ disconnects' = [disconnects EXCEPT ![g] = r.disconnects]
        /\ speaks' = [speaks EXCEPT ![g] = r.speaks]
        /\ streams' = [streams EXCEPT ![g] = r.streams]
        /\ transcripts' = [transcripts EXCEPT ![g] = r.transcripts]
        /\ startResult' = [startResult EXCEPT ![g] = r.result]
        /\ unknownCommands' = [unknownCommands EXCEPT ![g] = r.unknown]
        /\ UNCHANGED drainVars
        /\ UNCHANGED delivery
        /\ UNCHANGED manager

\* ------------------------------------------------------------ small helpers
RemoveAt(seq, i) == [j \in 1..(Len(seq) - 1) |-> IF j < i THEN seq[j] ELSE seq[j + 1]]

\* variant: the members of the channel, bots included
AllMembers(v, ch) == {u \in Members : v[u] = ch}

\* channel.members.filter(member => !member.user.bot)
HumanMembers(v, ch) == {u \in Users : v[u] = ch}

isRecording(g) == activeRecordings[g] # 0

getActiveRecordings == {g \in AllGuilds : activeRecordings[g] # 0}

NoResult == [value |-> "none", recording |-> FALSE]

NoDelivery == [pc |-> "none", summary |-> <<>>, messages |-> <<>>, next |-> 1,
               log |-> <<>>]

IdleRecording ==
    /\ voice = [g \in AllGuilds |-> [u \in Members |-> NoChannel]]
    /\ activeRecordings = [g \in AllGuilds |-> 0]
    /\ sessions = [g \in AllGuilds |-> <<>>]
    /\ connections = [g \in AllGuilds |-> <<>>]
    /\ voiceConnection = [g \in AllGuilds |-> 0]
    /\ starts = [g \in AllGuilds |-> <<>>]
    /\ stopTimers = [g \in AllGuilds |-> <<>>]
    /\ stopCmds = [g \in AllGuilds |-> 0]
    /\ stops = [g \in AllGuilds |-> <<>>]
    /\ reconnects = [g \in AllGuilds |-> <<>>]
    /\ disconnects = [g \in AllGuilds |-> 0]
    /\ speaks = [g \in AllGuilds |-> <<>>]
    /\ streams = [g \in AllGuilds |-> <<>>]
    /\ transcripts = [g \in AllGuilds |-> <<>>]
    /\ startResult = [g \in AllGuilds |-> NoResult]
    /\ unknownCommands = [g \in AllGuilds |-> 0]
    /\ proc = "running"
    /\ guildTranscripts = <<>>
    /\ now = 0
    /\ pending = <<>>
    /\ results = <<>>

\* RecordingManager.__init__ and ChunkedRecordingManager.__init__: empty
\* dictionaries. A timer is "none" (no entry), "pending" or "done"; chunks is
\* -1 without an entry, otherwise the length of the guild's chunk list
NoManager ==
    [active_recordings |-> [g \in ManagerGuilds |-> FALSE],
     recording_timers |-> [g \in ManagerGuilds |-> "none"],
     chunk_timers |-> [g \in ManagerGuilds |-> "none"],
     chunks |-> [g \in ManagerGuilds |-> -1],
     connecting |-> [g \in ManagerGuilds |-> FALSE],
     stopping |-> [g \in ManagerGuilds |-> 0],
     completed |-> [g \in ManagerGuilds |-> 0]]

Idle == IdleRecording /\ delivery = NoDelivery /\ manager = NoManager

Init == Idle /\ budget = MaxEvents

\* an external event (gateway event, command, transport or provider event)
External == budget > 0 /\ budget' = budget - 1 /\ UNCHANGED proc

\* the continuation of a suspended handler
Internal == UNCHANGED <<proc, budget>>

\* ------------------------------------------------------- voice connections
\* connection.destroy(): the connection leaves the tracking map of the voice
\* library; a call on a destroyed connection throws and changes nothing else
destroy(s, k) ==
    [s EXCEPT !.conns[k].status = "destroyed",
              !.conns[k].destroyCalls = @ + 1,
              !.vc = IF s.vc = k THEN 0 ELSE s.vc]

\* joinVoiceChannel: a tracked connection of the guild is reused (rejoined when it
\* is Disconnected), otherwise a new connection is created in Signalling
joinVoiceChannel(s) ==
    IF s.vc = 0
    THEN [s EXCEPT !.conns = Append(@, [status |-> "connecting", listeners |-> <<>>,
                                             destroyCalls |-> 0]),
                   !.vc = Len(s.conns) + 1]
    ELSE IF s.conns[s.vc].status = "disconnected"
         THEN [s EXCEPT !.conns[s.vc].status = "connecting",
                        !.reconnects = SelectSeq(@, LAMBDA r : r.connection # s.vc)]
         ELSE s

CanJoin(s) == s.vc # 0 \/ Len(s.conns) < MaxConns

\* ------------------------------------------------------------ member leave
\* variant: a manual session is stopped like an automatic one
StopThresholdAuto(isManual, memberCount) == memberCount <= 1

\* the stop condition of handleMemberLeave
StopThresholdReached(isManual, memberCount) ==
    \/ isManual /\ memberCount = 0
    \/ ~isManual /\ memberCount <= 1

\* the delayed stops pending for a guild in one run are bounded
TimerCap(s) == Len(s.timers) <= MaxTimers

\* handleMemberLeave for a member who left channel ch; the delayed stop is a timer
handleMemberLeave(s, ch) ==
    IF ch = NoChannel THEN s
    ELSE IF s.active = 0 THEN s
    ELSE IF s.sessions[s.active].channelId # ch THEN s
    ELSE IF StopThresholdReached(s.sessions[s.active].isManualRecording,
                                 Cardinality(HumanMembers(s.voice, ch)))
         THEN [s EXCEPT !.timers = Append(@, s.active)]
         ELSE s

\* ------------------------------------------------------------------- start
\* the code after the transport-ready wait: build recordable from the members
\* captured before the wait, store the session, call sendRecordingNotification
StoreSession(s, i) ==
    LET t == s.starts[i]
        data == [connection |-> t.connection,
                 channelId |-> t.channelId,
                 recordable |-> t.humanMembers,
                 recording |-> {},
                 isManualRecording |-> (t.kind = "manual"),
                 overdue |-> FALSE,
                 stopCalls |-> 0,
                 drains |-> 0,
                 transcript |-> "pending",
                 sources |-> {},
                 summary |-> "none",
                 title |-> "none",
                 requests |-> {},
                 delivered |-> {}]
    IN [s EXCEPT !.sessions = Append(@, data),
                 !.active = Len(s.sessions) + 1,
                 !.starts[i].pc = "notify",
                 !.starts[i].sid = Len(s.sessions) + 1]

\* await entersState(connection, Ready, 20e3): no suspension when already Ready
entersStateReady(s, i) ==
    IF s.conns[s.starts[i].connection].status = "ready"
    THEN StoreSession(s, i)
    ELSE s

\* a start attempt returns: the task ends, startManualRecording's value is kept,
\* and handleVoiceStateUpdate goes on to the leave half of a channel move
FinishStart(s, i, value) ==
    LET t == s.starts[i]
        r == [s EXCEPT !.starts = RemoveAt(@, i),
                       !.result = IF t.kind = "manual" /\ value # "none"
                                  THEN [value |-> value, recording |-> (s.active # 0)]
                                  ELSE @]
    IN IF t.kind = "auto" THEN handleMemberLeave(r, t.thenLeave) ELSE r

UnstoredStarts(s) == Cardinality({i \in 1..Len(s.starts) : s.starts[i].sid = 0})

CanStart(s) ==
    /\ Len(s.starts) < MaxStarts
    /\ Len(s.sessions) + UnstoredStarts(s) < MaxSessions
    /\ CanJoin(s)

\* handleMemberJoin for a member who is now in channel ch (old: the channel left)
handleMemberJoin(s, ch, old) ==
    IF Cardinality(HumanMembers(s.voice, ch)) >= AutoStartThreshold /\ s.active = 0
    THEN LET j == joinVoiceChannel(s)
             t == [kind |-> "auto", user |-> "-", channelId |-> ch,
                   humanMembers |-> HumanMembers(s.voice, ch),
                   connection |-> j.vc, pc |-> "ready", sid |-> 0, thenLeave |-> old]
             w == [j EXCEPT !.starts = Append(@, t)]
         IN entersStateReady(w, Len(w.starts))
    ELSE handleMemberLeave(s, old)

JoinStarts(s, ch) ==
    Cardinality(HumanMembers(s.voice, ch)) >= AutoStartThreshold /\ s.active = 0

\* voiceStateUpdate of a human member: u enters channel ch (from none or another)
MemberJoin(g, u, ch) ==
    /\ proc # "exited"
    /\ voice[g][u] # ch
    /\ LET s == [St(g) EXCEPT !.voice[u] = ch] IN
        /\ JoinStarts(s, ch) => CanStart(St(g))
        /\ TimerCap(handleMemberJoin(s, ch, voice[g][u]))
        /\ Commit(g, handleMemberJoin(s, ch, voice[g][u]))
    /\ External

\* voiceStateUpdate of a human member: u leaves the voice channels of the guild
MemberLeave(g, u) ==
    /\ proc # "exited"
    /\ voice[g][u] # NoChannel
    /\ TimerCap(handleMemberLeave([St(g) EXCEPT !.voice[u] = NoChannel], voice[g][u]))
    /\ Commit(g, handleMemberLeave([St(g) EXCEPT !.voice[u] = NoChannel], voice[g][u]))
    /\ External

\* voiceStateUpdate of a bot (the bot of this program included): the handler
\* returns at its first line
BotVoiceState(g, b, ch) ==
    /\ proc # "exited"
    /\ voice[g][b] # ch
    /\ Commit(g, [St(g) EXCEPT !.voice[b] = ch])
    /\ External

\* /record: record() joins when the guild has no connection and waits for Ready,
\* otherwise goes straight to the member fetch before startManualRecording
RecordCommand(g, u) ==
    /\ proc # "exited"
    /\ voice[g][u] # NoChannel
    /\ CanStart(St(g))
    /\ LET s == St(g)
           j == joinVoiceChannel(s)
           t == [kind |-> "manual", user |-> u, channelId |-> NoChannel,
                 humanMembers |-> {}, connection |-> j.vc,
                 pc |-> IF s.vc = 0 THEN "cmdReady" ELSE "cmdFetch",
                 sid |-> 0, thenLeave |-> NoChannel]
       IN Commit(g, IF s.vc = 0
                    THEN [j EXCEPT !.starts = Append(@, t)]
                    ELSE [s EXCEPT !.starts = Append(@, t)])
    /\ External

\* startManualRecording up to its first suspension
startManualRecording(s, i, ch) ==
    IF s.active # 0
    THEN FinishStart(s, i, "undefined")
    ELSE entersStateReady([s EXCEPT !.starts[i].channelId = ch,
                                    !.starts[i].humanMembers = HumanMembers(s.voice, ch),
                                    !.starts[i].pc = "ready"], i)

\* record() after guild.members.fetch: the members of the user's channel are
\* captured and startManualRecording is called
RecordFetched(g, i) ==
    /\ proc # "exited"
    /\ i \in 1..Len(starts[g])
    /\ starts[g][i].pc = "cmdFetch"
    /\ LET s == St(g)
           ch == s.voice[s.starts[i].user]
       IN Commit(g, IF ch = NoChannel
                    THEN FinishStart(s, i, "none")
                    ELSE startManualRecording(s, i, ch))
    /\ Internal

RECURSIVE ResumeWaiters(_, _, _)
\* the waiters of entersState(connection k, Ready) resume in registration order
ResumeWaiters(s, k, i) ==
    IF i > Len(s.starts) THEN s
    ELSE LET t == s.starts[i] IN
         IF t.connection = k /\ t.pc = "ready" THEN ResumeWaiters(StoreSession(s, i), k, i + 1)
         ELSE IF t.connection = k /\ t.pc = "cmdReady"
              THEN ResumeWaiters([s EXCEPT !.starts[i].pc = "cmdFetch"], k, i + 1)
              ELSE ResumeWaiters(s, k, i + 1)

\* the transport reports Ready on connection k
ConnReady(g, k) ==
    /\ proc # "exited"
    /\ k \in 1..Len(connections[g])
    /\ connections[g][k].status = "connecting"
    /\ Commit(g, ResumeWaiters([St(g) EXCEPT !.conns[k].status = "ready"], k, 1))
    /\ Internal

\* variant: the session is stored before the wait and stays after the timeout
StartTimeoutStored(g, i) ==
    /\ proc # "exited"
    /\ i \in 1..Len(starts[g])
    /\ starts[g][i].pc \in {"ready", "cmdReady"}
    /\ connections[g][starts[g][i].connection].status # "ready"
    /\ LET r == FinishStart(StoreSession(St(g), i), i,
                            IF starts[g][i].pc = "ready" THEN "false" ELSE "none")
       IN TimerCap(r) /\ Commit(g, r)
    /\ Internal

\* the 20 s bound of entersState expires for one waiter
StartTimeout(g, i) ==
    /\ proc # "exited"
    /\ i \in 1..Len(starts[g])
    /\ starts[g][i].pc \in {"ready", "cmdReady"}
    /\ connections[g][starts[g][i].connection].status # "ready"
    /\ LET r == FinishStart(St(g), i, IF starts[g][i].pc = "ready" THEN "false" ELSE "none")
       IN TimerCap(r) /\ Commit(g, r)
    /\ Internal

\* setupRecording: one speaking listener and one Disconnected listener, closed
\* over the recordable and recording sets of session sid
setupRecording(s, k, sid) ==
    [s EXCEPT !.conns[k].listeners = Append(@, sid)]

\* sendRecordingNotification returned (a message when sent, null otherwise)
StartNotified(g, i, sent) ==
    /\ proc # "exited"
    /\ i \in 1..Len(starts[g])
    /\ starts[g][i].pc = "notify"
    /\ LET s == St(g)
           t == s.starts[i]
           r == IF sent /\ s.active = 0
                THEN FinishStart(s, i, "false")
                ELSE FinishStart(setupRecording(s, t.connection, t.sid), i, "true")
       IN TimerCap(r) /\ Commit(g, r)
    /\ Internal

\* time passes: the session registered for the guild has now lasted longer than
\* the maximum recording length (new Date() - startTime > 1 hour); nothing in
\* the handlers reads startTime before the stop notification
HourPasses(g) ==
    /\ proc # "exited"
    /\ activeRecordings[g] # 0
    /\ ~sessions[g][activeRecordings[g]].overdue
    /\ Commit(g, [St(g) EXCEPT !.sessions[activeRecordings[g]].overdue = TRUE])
    /\ External

\* -------------------------------------------------------------------- stop
\* variant: the entry stays in the registry while the stop is in progress
RemoveEntryDeferred(s) == s

\* activeRecordings.delete(guildId), before the connection is destroyed
RemoveEntry(s) == [s EXCEPT !.active = 0]

\* variant: without the registry guard, the guild's last session is stopped again
stopRecordingUnguarded(s, trigger) ==
    IF s.sessions = <<>> THEN s
    ELSE LET sid == Len(s.sessions)
             k == s.sessions[sid].connection
             throws == s.conns[k].status = "destroyed"
             cleared == [s EXCEPT !.sessions[sid].recording = {},
                                  !.sessions[sid].stopCalls = @ + 1]
         IN [destroy(RemoveEntry(cleared), k) EXCEPT
                !.stops = Append(@, [sid |-> sid,
                                     pc |-> IF throws THEN "catch" ELSE "settle",
                                     by |-> trigger])]

\* stopRecording up to its first suspension (the 2 s settle wait); a destroy()
\* of an already destroyed connection throws into the catch block
stopRecording(s, trigger) ==
    IF s.active = 0 THEN s
    ELSE LET sid == s.active
             k == s.sessions[sid].connection
             throws == s.conns[k].status = "destroyed"
             cleared == [s EXCEPT !.sessions[sid].recording = {},
                                  !.sessions[sid].stopCalls = @ + 1]
         IN [destroy(RemoveEntry(cleared), k) EXCEPT
                !.stops = Append(@, [sid |-> sid,
                                     pc |-> IF throws THEN "catch" ELSE "settle",
                                     by |-> trigger])]

\* setTimeout(() => stopRecording(guildId, client, true), 2000) fires
TimerFire(g) ==
    /\ proc # "exited"
    /\ stopTimers[g] # <<>>
    /\ Commit(g, stopRecording([St(g) EXCEPT !.timers = Tail(@)], "timer"))
    /\ Internal

\* /stop_recording or /leave on a recording guild: deferReply is awaited first
StopCommand(g) ==
    /\ proc # "exited"
    /\ isRecording(g)
    /\ stopCmds[g] < MaxCmds
    /\ Commit(g, [St(g) EXCEPT !.cmds = @ + 1])
    /\ External

\* the command handler resumes after deferReply and calls stopRecording
CmdStop(g) ==
    /\ proc # "exited"
    /\ stopCmds[g] > 0
    /\ Commit(g, stopRecording([St(g) EXCEPT !.cmds = @ - 1], "command"))
    /\ Internal

\* /leave on a guild that is not recording but has a voice connection
LeaveCommand(g) ==
    /\ proc # "exited"
    /\ ~isRecording(g)
    /\ voiceConnection[g] # 0
    /\ Commit(g, destroy(St(g), voiceConnection[g]))
    /\ External

\* /cancel: the command is deployed with the other commands, but the dispatch
\* of interactionCreate finds no handler under that name and replies
\* 'Unknown command'
CancelCommand(g) ==
    /\ proc # "exited"
    /\ unknownCommands[g] < MaxCancels
    /\ Commit(g, [St(g) EXCEPT !.unknown = @ + 1])
    /\ External

\* generateTranscript: null when the guild has no fragments, otherwise the
\* document is rendered from all fragments of the guild (sources: the sessions
\* whose streams produced them) and the guild's fragments are deleted
generateTranscript(s, i) ==
    LET sid == s.stops[i].sid
        d == [s EXCEPT !.sessions[sid].drains = @ + 1]
    IN IF s.transcripts = <<>>
       THEN [d EXCEPT !.sessions[sid].transcript = "null"]
       ELSE [d EXCEPT !.sessions[sid].transcript = "text",
                      !.sessions[sid].sources =
                          {s.transcripts[j].sid : j \in 1..Len(s.transcripts)},
                      !.transcripts = <<>>]

\* stopRecording calls a collaborator and suspends until it returns
call(s, i, callee, pc) ==
    [s EXCEPT !.sessions[s.stops[i].sid].requests = @ \cup {callee},
              !.stops[i].pc = pc]

\* the settle wait of stopRecording is over: drain
StopSettled(g, i) ==
    /\ proc # "exited"
    /\ i \in 1..Len(stops[g])
    /\ stops[g][i].pc = "settle"
    /\ LET d == generateTranscript(St(g), i) IN
       Commit(g, IF d.sessions[stops[g][i].sid].transcript = "null"
                 THEN call(d, i, "sendStopRecordingNotification", "notice")
                 ELSE call(d, i, "generateSummary", "summary"))
    /\ Internal

\* generateSummary returned (a summary, or null on any failure)
StopSummarized(g, i, ok) ==
    /\ proc # "exited"
    /\ i \in 1..Len(stops[g])
    /\ stops[g][i].pc = "summary"
    /\ LET sid == stops[g][i].sid IN
       Commit(g, IF ok
                 THEN call([St(g) EXCEPT !.sessions[sid].summary = "text"],
                           i, "generateTitle", "title")
                 ELSE call([St(g) EXCEPT !.sessions[sid].summary = "null"],
                           i, "sendStopRecordingNotification", "notice"))
    /\ Internal

\* variant: a failed title request ends the pipeline with the stop notification
StopTitledAborts(g, i, ok) ==
    /\ proc # "exited"
    /\ i \in 1..Len(stops[g])
    /\ stops[g][i].pc = "title"
    /\ LET sid == stops[g][i].sid IN
       Commit(g, IF ok
                 THEN call([St(g) EXCEPT !.sessions[sid].title = "generated"],
                           i, "sendTranscriptAndSummary", "send")
                 ELSE call([St(g) EXCEPT !.sessions[sid].title = "fallback"],
                           i, "sendStopRecordingNotification", "notice"))
    /\ Internal

\* generateTitle returned: the generated title, or the fallback title
\* "Meeting Transcript (<date>)" on any failure; delivery follows either way
StopTitled(g, i, ok) ==
    /\ proc # "exited"
    /\ i \in 1..Len(stops[g])
    /\ stops[g][i].pc = "title"
    /\ LET sid == stops[g][i].sid IN
       Commit(g, call([St(g) EXCEPT !.sessions[sid].title =
                                        IF ok THEN "generated" ELSE "fallback"],
                      i, "sendTranscriptAndSummary", "send"))
    /\ Internal

\* stopRecording returns after its last send: the messages that reached the
\* transcript channel are kept with the session
returnFromStop(s, i, messages) ==
    [s EXCEPT !.stops = RemoveAt(@, i),
              !.sessions[s.stops[i].sid].delivered = @ \cup messages]

\* sendTranscriptAndSummary returned (delivered or failed); stopRecording returns
StopSent(g, i, ok) ==
    /\ proc # "exited"
    /\ i \in 1..Len(stops[g])
    /\ stops[g][i].pc = "send"
    /\ Commit(g, returnFromStop(St(g), i, IF ok THEN {"summary", "file"} ELSE {}))
    /\ Internal

\* sendStopRecordingNotification returned on an early-return path; its message
\* is "Recording stopped in <channel> after <duration>, generating transcript
\* and summary... please wait"
StopNoticed(g, i, ok) ==
    /\ proc # "exited"
    /\ i \in 1..Len(stops[g])
    /\ stops[g][i].pc = "notice"
    /\ Commit(g, returnFromStop(St(g), i, IF ok THEN {"stopped"} ELSE {}))
    /\ Internal

\* The catch block of stopRecording (error notification, destroy, delete) has
\* no action: only a destroy() of a destroyed connection throws inside the try
\* block, and no stored session has one when stopRecording reaches it.

\* -------------------------------------------------------------- disconnect
\* the transport reports Disconnected on a Ready connection: every Disconnected
\* listener registered by setupRecording starts its reconnect race
ConnDisconnected(g, k) ==
    /\ proc # "exited"
    /\ k \in 1..Len(connections[g])
    /\ connections[g][k].status = "ready"
    /\ disconnects[g] < MaxDisconnects
    /\ LET s == St(g) IN
       Commit(g, [s EXCEPT !.conns[k].status = "disconnected",
                           !.disconnects = @ + 1,
                           !.reconnects = @ \o [j \in 1..Len(s.conns[k].listeners) |->
                                                    [connection |-> k]]])
    /\ External

\* the connection enters Signalling or Connecting within the bound: the race of
\* every waiting handler resolves and the handlers return
ConnReconnecting(g, k) ==
    /\ proc # "exited"
    /\ k \in 1..Len(connections[g])
    /\ connections[g][k].status = "disconnected"
    /\ Commit(g, [St(g) EXCEPT !.conns[k].status = "connecting",
                               !.reconnects = SelectSeq(@, LAMBDA r : r.connection # k)])
    /\ Internal

\* variant: the failure branch of the earlier revision of the handler, which
\* destroys the connection and deletes the entry without finalizing
reconnectFailedSilent(s, k) == RemoveEntry(destroy(s, k))

\* the failure branch of the Disconnected handler
reconnectFailed(s, k) ==
    IF s.active # 0
    THEN stopRecording(s, "reconnect")
    ELSE destroy(s, k)

\* in the failure branch destroy() throws when the guild is not recording and the
\* connection is already destroyed: the rejection of the listener is unhandled
\* and Node (>= 16, package.json engines) terminates the process
reconnectCrashes(s, k) == s.active = 0 /\ s.conns[k].status = "destroyed"

\* the 5 s bound of the reconnect race expires for one handler
ReconnectTimeout(g, i) ==
    /\ proc # "exited"
    /\ i \in 1..Len(reconnects[g])
    /\ connections[g][reconnects[g][i].connection].status # "connecting"
    /\ LET s == [St(g) EXCEPT !.reconnects = RemoveAt(@, i)]
           k == reconnects[g][i].connection
       IN IF reconnectCrashes(s, k)
          THEN Commit(g, destroy(s, k)) /\ proc' = "exited"
          ELSE Commit(g, reconnectFailed(s, k)) /\ UNCHANGED proc
    /\ UNCHANGED budget

\* ---------------------------------------------------------------- speaking
\* variant: the speaking listener handles every speaker
SpeakerAcceptedAny(s, sid, u) == TRUE

\* the guard of the speaking listener: only recordable users are handled
SpeakerAccepted(s, sid, u) == u \in s.sessions[sid].recordable

RECURSIVE speakingListeners(_, _, _, _)
\* receiver.speaking emits 'start' for user u: the listeners registered on the
\* connection run in registration order, each up to its guild.members.fetch
speakingListeners(s, k, u, j) ==
    IF j > Len(s.conns[k].listeners) THEN s
    ELSE LET sid == s.conns[k].listeners[j] IN
         IF SpeakerAccepted(s, sid, u)
         THEN speakingListeners([s EXCEPT !.speaks = Append(@, [sid |-> sid, user |-> u,
                                                                 pc |-> "fetch"])],
                                k, u, j + 1)
         ELSE speakingListeners(s, k, u, j + 1)

SpeakingStart(g, k, u) ==
    /\ proc # "exited"
    /\ k \in 1..Len(connections[g])
    /\ connections[g][k].status = "ready"
    /\ connections[g][k].listeners # <<>>
    /\ voice[g][u] # NoChannel
    /\ LET n == speakingListeners(St(g), k, u, 1) IN
        /\ Len(n.speaks) <= MaxSpeaks
        /\ Commit(g, n)
    /\ External

\* guild.members.fetch returned: the handler adds the user to recording unless
\* the member is unknown or the user is already being recorded
SpeakFetched(g, i, found) ==
    /\ proc # "exited"
    /\ i \in 1..Len(speaks[g])
    /\ speaks[g][i].pc = "fetch"
    /\ LET s == St(g)
           t == s.speaks[i]
       IN Commit(g, IF ~found \/ t.user \in s.sessions[t.sid].recording
                    THEN [s EXCEPT !.speaks = RemoveAt(@, i)]
                    ELSE [s EXCEPT !.sessions[t.sid].recording = @ \cup {t.user},
                                   !.speaks[i].pc = "channel"])
    /\ Internal

\* getTranscriptChannel returned: without a channel the handler returns
SpeakChannel(g, i, found) ==
    /\ proc # "exited"
    /\ i \in 1..Len(speaks[g])
    /\ speaks[g][i].pc = "channel"
    /\ Commit(g, IF found
                 THEN [St(g) EXCEPT !.speaks[i].pc = "webhook"]
                 ELSE [St(g) EXCEPT !.speaks = RemoveAt(@, i)])
    /\ Internal

\* createListeningStream: a new stream with an open cleanup latch and a provider
\* connection (deepgram.listen.live) that is still connecting
createListeningStream(s, sid, u) ==
    [s EXCEPT !.streams = Append(@, [sid |-> sid, user |-> u, hasCleanedUp |-> FALSE,
                                     cleanups |-> 0, signals |-> 0,
                                     open |-> FALSE, closed |-> FALSE,
                                     finishCalls |-> 0, ended |-> FALSE, piped |-> FALSE,
                                     forwarding |-> FALSE, received |-> <<>>,
                                     sent |-> <<>>])]

\* fetchWebhooks / createWebhook returned: "error" when they threw, "throw" when
\* createListeningStream threw, "ok" when the stream was created
SpeakWebhook(g, i, outcome) ==
    /\ proc # "exited"
    /\ i \in 1..Len(speaks[g])
    /\ speaks[g][i].pc = "webhook"
    /\ LET s == St(g)
           t == s.speaks[i]
           r == [s EXCEPT !.speaks = RemoveAt(@, i)]
       IN Commit(g, CASE outcome = "ok" -> createListeningStream(r, t.sid, t.user)
                      [] outcome = "throw" ->
                            [r EXCEPT !.sessions[t.sid].recording = @ \ {t.user}]
                      [] OTHER -> r)
    /\ Internal

\* ----------------------------------------------------------------- streams
\* addTranscriptMessage: the fragment goes to the guild's accumulator
addTranscriptMessage(s, sid, u) ==
    [s EXCEPT !.transcripts = Append(@, [userId |-> u, sid |-> sid])]

\* deepgramLive.getReadyState(): 0 connecting, 1 open, 3 closed
getReadyState(stream) == IF stream.closed THEN 3 ELSE IF stream.open THEN 1 ELSE 0

\* deepgramLive.finish(): a CloseStream message is sent; the connection stays
\* open until the provider closes it
finish(s, i) == [s EXCEPT !.streams[i].finishCalls = @ + 1]

\* opusStream.readable: the audio stream has not ended and was not destroyed
readable(stream) == ~stream.ended /\ ~stream.piped

\* the provider connection of a stream opens: when the audio stream is readable
\* the handler registers the 'data' listener that forwards frames
StreamOpen(g, i) ==
    /\ proc # "exited"
    /\ i \in 1..Len(streams[g])
    /\ getReadyState(streams[g][i]) = 0
    /\ Commit(g, [St(g) EXCEPT !.streams[i].open = TRUE,
                               !.streams[i].forwarding = readable(streams[g][i])])
    /\ Internal

\* variant: the forwarding listener sends without looking at the ready state
opusDataUnchecked(s, i) ==
    LET st == s.streams[i]
        n == Len(st.received) + 1
        r == [s EXCEPT !.streams[i].received = Append(@, getReadyState(st))]
    IN IF st.forwarding
       THEN [r EXCEPT !.streams[i].sent = Append(@, n)]
       ELSE r

\* the audio subscription emits frame number n: the forwarding listener, when
\* registered, sends it if the provider connection reports ready and drops it
\* otherwise; received keeps the ready state at the arrival of each frame
opusData(s, i) ==
    LET st == s.streams[i]
        n == Len(st.received) + 1
        r == [s EXCEPT !.streams[i].received = Append(@, getReadyState(st))]
    IN IF st.forwarding /\ getReadyState(st) = 1
       THEN [r EXCEPT !.streams[i].sent = Append(@, n)]
       ELSE r

\* a frame arrives from the audio subscription of a stream
StreamData(g, i) ==
    /\ proc # "exited"
    /\ i \in 1..Len(streams[g])
    /\ readable(streams[g][i])
    /\ Len(streams[g][i].received) < MaxFrames
    /\ Commit(g, opusData(St(g), i))
    /\ Internal

\* the provider delivers a non-empty transcript on a stream's open connection
StreamTranscript(g, i) ==
    /\ proc # "exited"
    /\ i \in 1..Len(streams[g])
    /\ getReadyState(streams[g][i]) = 1
    /\ Len(transcripts[g]) < MaxFragments
    /\ Commit(g, addTranscriptMessage(St(g), streams[g][i].sid, streams[g][i].user))
    /\ External

\* the body of cleanup(): the user leaves the recording set and the provider
\* connection is finished when it is open
cleanupBody(s, i) ==
    LET r == [s EXCEPT !.streams[i].hasCleanedUp = TRUE,
                       !.streams[i].cleanups = @ + 1,
                       !.streams[i].signals = @ + 1,
                       !.sessions[s.streams[i].sid].recording = @ \ {s.streams[i].user}]
    IN IF getReadyState(s.streams[i]) = 1 THEN finish(r, i) ELSE r

\* variant: cleanup() without the latch
cleanupUnlatched(s, i) == cleanupBody(s, i)

\* cleanup() of a stream, called by every termination handler: the body runs
\* behind the hasCleanedUp latch
cleanup(s, i) ==
    IF s.streams[i].hasCleanedUp
    THEN [s EXCEPT !.streams[i].signals = @ + 1]
    ELSE cleanupBody(s, i)

\* opusStream.on('end'): finish() when the provider connection is open, then
\* cleanup()
opusStreamEnd(s, i) ==
    LET e == [s EXCEPT !.streams[i].ended = TRUE]
    IN cleanup(IF getReadyState(s.streams[i]) = 1 THEN finish(e, i) ELSE e, i)

\* the audio stream of a speaker ends (after one second of silence)
StreamEnd(g, i) ==
    /\ proc # "exited"
    /\ i \in 1..Len(streams[g])
    /\ ~streams[g][i].ended
    /\ Commit(g, opusStreamEnd(St(g), i))
    /\ Internal

\* the callback of pipeline(opusStream, out): the file is written or the
\* pipeline failed
StreamPipeline(g, i) ==
    /\ proc # "exited"
    /\ i \in 1..Len(streams[g])
    /\ ~streams[g][i].piped
    /\ Commit(g, cleanup([St(g) EXCEPT !.streams[i].piped = TRUE], i))
    /\ Internal

\* the provider connection closes: no transcript of the stream follows
StreamClose(g, i) ==
    /\ proc # "exited"
    /\ i \in 1..Len(streams[g])
    /\ ~streams[g][i].closed
    /\ Commit(g, [cleanup(St(g), i) EXCEPT !.streams[i].closed = TRUE])
    /\ Internal

\* ----------------------------------------------------------------- SIGTERM
RECURSIVE cleanupAll(_, _)
cleanupAll(s, i) == IF i > Len(s.streams) THEN s ELSE cleanupAll(cleanup(s, i), i + 1)

\* process.on('SIGTERM'): stopRecording for every recording guild, then the
\* SIGTERM listener of every stream
Sigterm ==
    /\ proc = "running"
    /\ CommitAll([g \in AllGuilds |-> cleanupAll(stopRecording(St(g), "sigterm"), 1)])
    /\ proc' = "stopping"
    /\ budget > 0
    /\ budget' = budget - 1

\* the stops have returned or their 5 s bound has expired (the 2 s settle
\* timers were set earlier and have fired): connections destroyed, process.exit
SigtermExit ==
    /\ proc = "stopping"
    /\ \A g \in AllGuilds : \A i \in 1..Len(stops[g]) :
            stops[g][i].by = "sigterm" => stops[g][i].pc # "settle"
    /\ CommitAll([g \in AllGuilds |->
                    IF voiceConnection[g] = 0 THEN St(g)
                    ELSE destroy(St(g), voiceConnection[g])])
    /\ proc' = "exited"
    /\ UNCHANGED budget

\* ------------------------------------------------------------ specification
\* the streams created per guild in one run of Spec are bounded
StreamCap(g, outcome) == outcome = "ok" => Len(streams[g]) < MaxStreams

GuildNext(g) ==
    \/ \E u \in Users, ch \in Channels : MemberJoin(g, u, ch)
    \/ \E u \in Users : MemberLeave(g, u)
    \/ \E u \in Users : RecordCommand(g, u)
    \/ \E i \in 1..MaxStarts : RecordFetched(g, i)
    \/ \E k \in 1..MaxConns : ConnReady(g, k)
    \/ \E i \in 1..MaxStarts : StartTimeout(g, i)
    \/ \E i \in 1..MaxStarts, sent \in BOOLEAN : StartNotified(g, i, sent)
    \/ TimerFire(g)
    \/ StopCommand(g)
    \/ CmdStop(g)
    \/ LeaveCommand(g)
    \/ \E i \in 1..Len(stops[g]) : StopSettled(g, i)
    \/ \E i \in 1..Len(stops[g]), ok \in BOOLEAN : StopSummarized(g, i, ok)
    \/ \E i \in 1..Len(stops[g]), ok \in BOOLEAN : StopTitled(g, i, ok)
    \/ \E i \in 1..Len(stops[g]), ok \in BOOLEAN : StopSent(g, i, ok)
    \/ \E i \in 1..Len(stops[g]), ok \in BOOLEAN : StopNoticed(g, i, ok)
    \/ \E k \in 1..MaxConns : ConnDisconnected(g, k)
    \/ \E k \in 1..MaxConns : ConnReconnecting(g, k)
    \/ \E i \in 1..Len(reconnects[g]) : ReconnectTimeout(g, i)
    \/ \E k \in 1..MaxConns, u \in Users : SpeakingStart(g, k, u)
    \/ \E i \in 1..Len(speaks[g]), found \in BOOLEAN : SpeakFetched(g, i, found)
    \/ \E i \in 1..Len(speaks[g]), found \in BOOLEAN : SpeakChannel(g, i, found)
    \/ \E i \in 1..Len(speaks[g]), o \in {"ok", "error", "throw"} :
            StreamCap(g, o) /\ SpeakWebhook(g, i, o)
    \/ \E i \in 1..Len(streams[g]) : StreamOpen(g, i)
    \/ \E i \in 1..Len(streams[g]) : StreamTranscript(g, i)
    \/ \E i \in 1..Len(streams[g]) : StreamPipeline(g, i)
    \/ \E i \in 1..Len(streams[g]) : StreamEnd(g, i)
    \/ \E i \in 1..Len(streams[g]) : StreamClose(g, i)

Next ==
    \/ \E g \in Guilds : GuildNext(g)
    \/ Sigterm
    \/ SigtermExit

Spec == Init /\ [][Next]_vars

\* many guilds, automatic starts only: the registry under load
InitCap == Idle /\ budget = CapEvents

NextCap ==
    \E g \in CapGuilds :
        \/ \E u \in Users, ch \in Channels : MemberJoin(g, u, ch)
        \/ \E k \in 1..MaxConns : ConnReady(g, k)
        \/ \E i \in 1..MaxStarts, sent \in BOOLEAN : StartNotified(g, i, sent)

SpecCap == InitCap /\ [][NextCap]_vars

\* one automatic session and its speakers: the streams of a session
InitSpeak == Idle /\ budget = SpeakEvents

NextSpeak ==
    \E g \in Guilds :
        \/ \E u \in Users, ch \in Channels : MemberJoin(g, u, ch)
        \/ \E k \in 1..MaxConns : ConnReady(g, k)
        \/ \E i \in 1..MaxStarts, sent \in BOOLEAN : StartNotified(g, i, sent)
        \/ \E k \in 1..MaxConns, u \in Users : SpeakingStart(g, k, u)
        \/ \E i \in 1..Len(speaks[g]), found \in BOOLEAN : SpeakFetched(g, i, found)
        \/ \E i \in 1..Len(speaks[g]), found \in BOOLEAN : SpeakChannel(g, i, found)
        \/ \E i \in 1..Len(speaks[g]), o \in {"ok", "error", "throw"} : SpeakWebhook(g, i, o)
        \/ \E i \in 1..Len(streams[g]) : StreamOpen(g, i)
        \/ \E i \in 1..Len(streams[g]) : StreamTranscript(g, i)
        \/ \E i \in 1..Len(streams[g]) : StreamPipeline(g, i)
        \/ \E i \in 1..Len(streams[g]) : StreamEnd(g, i)
        \/ \E i \in 1..Len(streams[g]) : StreamClose(g, i)

SpecSpeak == InitSpeak /\ [][NextSpeak]_vars

\* the steps of a stream that happen without anybody acting: the continuations
\* of the speaking-start handler, the provider opening and closing the
\* connection, the pipeline callback
StreamSteps(g) ==
    \/ \E i \in 1..Len(speaks[g]), found \in BOOLEAN : SpeakFetched(g, i, found)
    \/ \E i \in 1..Len(speaks[g]), found \in BOOLEAN : SpeakChannel(g, i, found)
    \/ \E i \in 1..Len(speaks[g]), o \in {"ok", "error", "throw"} : SpeakWebhook(g, i, o)
    \/ \E i \in 1..Len(streams[g]) : StreamOpen(g, i)
    \/ \E i \in 1..Len(streams[g]) : StreamPipeline(g, i)
    \/ \E i \in 1..Len(streams[g]) : StreamClose(g, i)

\* the streams of a session, the steps above taken eventually
SpecSpeakFair ==
    InitSpeak /\ [][NextSpeak]_vars /\ \A g \in Guilds : WF_vars(StreamSteps(g))

\* automatic sessions of one guild one after the other, with one stream
InitSeq == Idle /\ budget = SeqEvents

NextSeq ==
    \E g \in Guilds :
        \/ \E u \in Users, ch \in Channels : MemberJoin(g, u, ch)
        \/ \E u \in Users : MemberLeave(g, u)
        \/ \E k \in 1..MaxConns : ConnReady(g, k)
        \/ \E i \in 1..MaxStarts, sent \in BOOLEAN : StartNotified(g, i, sent)
        \/ TimerFire(g)
        \/ \E i \in 1..Len(stops[g]) : StopSettled(g, i)
        \/ \E i \in 1..Len(stops[g]), ok \in BOOLEAN : StopSummarized(g, i, ok)
        \/ \E i \in 1..Len(stops[g]), ok \in BOOLEAN : StopTitled(g, i, ok)
        \/ \E i \in 1..Len(stops[g]), ok \in BOOLEAN : StopSent(g, i, ok)
        \/ \E i \in 1..Len(stops[g]), ok \in BOOLEAN : StopNoticed(g, i, ok)
        \/ \E k \in 1..MaxConns, u \in Users : SpeakingStart(g, k, u)
        \/ \E i \in 1..Len(speaks[g]), found \in BOOLEAN : SpeakFetched(g, i, found)
        \/ \E i \in 1..Len(speaks[g]), found \in BOOLEAN : SpeakChannel(g, i, found)
        \/ \E i \in 1..Len(speaks[g]), o \in {"ok", "error", "throw"} :
                StreamCap(g, o) /\ SpeakWebhook(g, i, o)
        \/ \E i \in 1..Len(streams[g]) : StreamOpen(g, i)
        \/ \E i \in 1..Len(streams[g]) : StreamTranscript(g, i)

SpecSeq == InitSeq /\ [][NextSeq]_vars

\* one session that lasts: time passes, the transport fails for good. The
\* timers and the continuations of suspended handlers run eventually; members,
\* commands and the transport act when they please
InitWatch == Idle /\ budget = WatchEvents

WatchTimers(g) ==
    \/ \E k \in 1..MaxConns : ConnReady(g, k)
    \/ \E i \in 1..MaxStarts, sent \in BOOLEAN : StartNotified(g, i, sent)
    \/ TimerFire(g)
    \/ CmdStop(g)
    \/ \E i \in 1..Len(reconnects[g]) : ReconnectTimeout(g, i)
    \/ \E i \in 1..Len(stops[g]) : StopSettled(g, i)
    \/ \E i \in 1..Len(stops[g]), ok \in BOOLEAN : StopNoticed(g, i, ok)

NextWatch ==
    \E g \in Guilds :
        \/ \E u \in Users, ch \in Channels : MemberJoin(g, u, ch)
        \/ \E u \in Users : MemberLeave(g, u)
        \/ StopCommand(g)
        \/ HourPasses(g)
        \/ \E k \in 1..MaxConns : ConnDisconnected(g, k)
        \/ WatchTimers(g)

SpecWatch ==
    InitWatch /\ [][NextWatch]_vars /\ \A g \in Guilds : WF_vars(WatchTimers(g))

\* two guilds: sessions side by side, stop commands and transport failures
InitIso == Idle /\ budget = IsoEvents

NextIso ==
    \E g \in IsoGuilds :
        \/ \E u \in Users, ch \in Channels : MemberJoin(g, u, ch)
        \/ \E k \in 1..MaxConns : ConnReady(g, k)
        \/ \E i \in 1..MaxStarts, sent \in BOOLEAN : StartNotified(g, i, sent)
        \/ StopCommand(g)
        \/ CmdStop(g)
        \/ \E i \in 1..Len(stops[g]) : StopSettled(g, i)
        \/ \E i \in 1..Len(stops[g]), ok \in BOOLEAN : StopNoticed(g, i, ok)
        \/ \E k \in 1..MaxConns : ConnDisconnected(g, k)
        \/ \E k \in 1..MaxConns : ConnReconnecting(g, k)
        \/ \E i \in 1..Len(reconnects[g]) : ReconnectTimeout(g, i)

SpecIso == InitIso /\ [][NextIso]_vars

\* the voice-state events of one guild with two channels and a bot
InitAuto == Idle /\ budget = AutoEvents

NextAuto ==
    \E g \in Guilds :
        \/ \E u \in Users, ch \in AutoChannels : MemberJoin(g, u, ch)
        \/ \E u \in Users : MemberLeave(g, u)
        \/ \E b \in Bots, ch \in AutoChannels \cup {NoChannel} : BotVoiceState(g, b, ch)
        \/ \E u \in Users : RecordCommand(g, u)
        \/ \E i \in 1..MaxStarts : RecordFetched(g, i)
        \/ \E k \in 1..MaxConns : ConnReady(g, k)
        \/ \E i \in 1..MaxStarts : StartTimeout(g, i)
        \/ \E i \in 1..MaxStarts, sent \in BOOLEAN : StartNotified(g, i, sent)
        \/ TimerFire(g)
        \/ \E i \in 1..Len(stops[g]) : StopSettled(g, i)
        \/ \E i \in 1..Len(stops[g]), ok \in BOOLEAN : StopNoticed(g, i, ok)

SpecAuto == InitAuto /\ [][NextAuto]_vars

\* the commands of one guild around one session
InitCancel == Idle /\ budget = CancelEvents

NextCancel ==
    \E g \in Guilds :
        \/ \E u \in Users, ch \in Channels : MemberJoin(g, u, ch)
        \/ \E u \in Users : RecordCommand(g, u)
        \/ \E i \in 1..MaxStarts : RecordFetched(g, i)
        \/ \E k \in 1..MaxConns : ConnReady(g, k)
        \/ \E i \in 1..MaxStarts, sent \in BOOLEAN : StartNotified(g, i, sent)
        \/ StopCommand(g)
        \/ CmdStop(g)
        \/ CancelCommand(g)
        \/ LeaveCommand(g)
        \/ \E i \in 1..Len(stops[g]) : StopSettled(g, i)
        \/ \E i \in 1..Len(stops[g]), ok \in BOOLEAN : StopNoticed(g, i, ok)

SpecCancel == InitCancel /\ [][NextCancel]_vars

\* one automatic session with one stream and the frames of its audio
InitFrames == Idle /\ budget = FrameEvents

NextFrames ==
    \E g \in Guilds :
        \/ \E u \in Users, ch \in Channels : MemberJoin(g, u, ch)
        \/ \E k \in 1..MaxConns : ConnReady(g, k)
        \/ \E i \in 1..MaxStarts, sent \in BOOLEAN : StartNotified(g, i, sent)
        \/ \E k \in 1..MaxConns, u \in Users : SpeakingStart(g, k, u)
        \/ \E i \in 1..Len(speaks[g]), found \in BOOLEAN : SpeakFetched(g, i, found)
        \/ \E i \in 1..Len(speaks[g]), found \in BOOLEAN : SpeakChannel(g, i, found)
        \/ \E i \in 1..Len(speaks[g]), o \in {"ok", "error", "throw"} :
                StreamCap(g, o) /\ SpeakWebhook(g, i, o)
        \/ \E i \in 1..Len(streams[g]) : StreamOpen(g, i)
        \/ \E i \in 1..Len(streams[g]) : StreamData(g, i)
        \/ \E i \in 1..Len(streams[g]) : StreamPipeline(g, i)
        \/ \E i \in 1..Len(streams[g]) : StreamEnd(g, i)
        \/ \E i \in 1..Len(streams[g]) : StreamClose(g, i)

SpecFrames == InitFrames /\ [][NextFrames]_vars

\* ------------------------------------------------ the transcript map in detail
\* addTranscriptMessage on the guild's map: the user's entry is created on the
\* first message (with the display name given then), the message is pushed with
\* timestamp new Date(); n numbers the appends
pushMessage(gt, userId, displayName, text, timestamp, n) ==
    LET m == [text |-> text, timestamp |-> timestamp, n |-> n] IN
    IF \E i \in 1..Len(gt) : gt[i].userId = userId
    THEN [i \in 1..Len(gt) |->
            IF gt[i].userId = userId
            THEN [gt[i] EXCEPT !.messages = Append(@, m)]
            ELSE gt[i]]
    ELSE Append(gt, [userId |-> userId, displayName |-> displayName, messages |-> <<m>>])

RECURSIVE allMessages(_)
\* guildTranscripts.forEach(userData => userData.messages.forEach(push)): the
\* messages user by user, the users in the insertion order of the Map
allMessages(gt) ==
    IF gt = <<>> THEN <<>>
    ELSE [j \in 1..Len(gt[1].messages) |->
            [userId |-> gt[1].userId, displayName |-> gt[1].displayName,
             text |-> gt[1].messages[j].text,
             timestamp |-> gt[1].messages[j].timestamp,
             n |-> gt[1].messages[j].n]]
         \o allMessages(Tail(gt))

RECURSIVE sortByTimestamp(_)
\* allMessages.sort((a, b) => a.timestamp - b.timestamp): Array.prototype.sort
\* is stable, equal timestamps keep the order of the array
sortByTimestamp(msgs) ==
    IF msgs = <<>> THEN <<>>
    ELSE LET x == msgs[Len(msgs)]
             rest == sortByTimestamp(SubSeq(msgs, 1, Len(msgs) - 1))
             k == Cardinality({i \in 1..Len(rest) : rest[i].timestamp <= x.timestamp})
         IN SubSeq(rest, 1, k) \o <<x>> \o SubSeq(rest, k + 1, Len(rest))

\* replace(/WAP/gi, 'Whop') on the texts of the model
replaceWAP(text) == IF text = "swap" THEN "sWhop" ELSE text

RECURSIVE renderFrom(_, _, _)
\* the rendering loop: a header "Speaker @<displayName>: " whenever the display
\* name differs from currentSpeaker, then the text; the document is the
\* sequence of these pieces
renderFrom(msgs, i, currentSpeaker) ==
    IF i > Len(msgs) THEN <<>>
    ELSE LET m == msgs[i]
             header == IF m.displayName # currentSpeaker
                       THEN <<[kind |-> "header", text |-> replaceWAP(m.displayName),
                               userId |-> m.userId, n |-> 0]>>
                       ELSE <<>>
         IN header
            \o <<[kind |-> "text", text |-> replaceWAP(m.text), userId |-> m.userId, n |-> m.n]>>
            \o renderFrom(msgs, i + 1, m.displayName)

\* generateTranscript on the guild's map: null without data, otherwise the
\* rendered document
drainTranscript(gt) ==
    IF gt = <<>>
    THEN [null |-> TRUE, document |-> <<>>]
    ELSE [null |-> FALSE, document |-> renderFrom(sortByTimestamp(allMessages(gt)), 1, "")]

MainVars == <<voice, activeRecordings, sessions, connections, voiceConnection, starts,
              stopTimers, stopCmds, stops, reconnects, disconnects, speaks, streams,
              transcripts, startResult, unknownCommands, proc, budget>>

RECURSIVE drainedCount(_)
\* the number of fragments that went into the results so far
drainedCount(rs) == IF rs = <<>> THEN 0 ELSE Len(rs[1].fragments) + drainedCount(Tail(rs))

\* a stream calls addTranscriptMessage(guildId, userId, displayName, text)
AppendFragment(u, name, text) ==
    /\ drainedCount(results) + Len(pending) < MaxMessages
    /\ guildTranscripts' = pushMessage(guildTranscripts, u, name, text, now, Len(pending) + 1)
    /\ pending' = Append(pending, [n |-> Len(pending) + 1, userId |-> u,
                                   text |-> text, timestamp |-> now])
    /\ UNCHANGED <<now, results>>
    /\ UNCHANGED MainVars
    /\ UNCHANGED delivery
    /\ UNCHANGED manager

\* a millisecond passes
Tick ==
    /\ now < MaxClock
    /\ now' = now + 1
    /\ UNCHANGED <<guildTranscripts, pending, results>>
    /\ UNCHANGED MainVars
    /\ UNCHANGED delivery
    /\ UNCHANGED manager

\* variant: generateTranscript without transcripts.delete(guildId)
DrainKeeps ==
    /\ Len(results) < MaxDrains
    /\ results' = Append(results, [drainTranscript(guildTranscripts) EXCEPT !.null = @]
                                     @@ [fragments |-> pending])
    /\ pending' = <<>>
    /\ UNCHANGED <<guildTranscripts, now>>
    /\ UNCHANGED MainVars
    /\ UNCHANGED delivery
    /\ UNCHANGED manager

\* generateTranscript(guildId): the result is kept, transcripts.delete(guildId)
Drain ==
    /\ Len(results) < MaxDrains
    /\ results' = Append(results, [drainTranscript(guildTranscripts) EXCEPT !.null = @]
                                     @@ [fragments |-> pending])
    /\ guildTranscripts' = <<>>
    /\ pending' = <<>>
    /\ UNCHANGED now
    /\ UNCHANGED MainVars
    /\ UNCHANGED delivery
    /\ UNCHANGED manager

InitDrain == Idle /\ budget = 0

NextDrain ==
    \/ \E u \in Users, name \in DisplayNames, text \in Texts : AppendFragment(u, name, text)
    \/ Tick
    \/ Drain

SpecDrain == InitDrain /\ [][NextDrain]_vars

\* --------------------------------------------------- delivery of the summary
\* Strings are sequences of characters over Alphabet: "#" stands for the
\* heading marker ###, "a" for any other visible character. The title line and
\* the list of recorded users of the two headers are the character "T"; the
\* continuation header is one character longer.
Alphabet == {"#", " ", "\n", "a"}

Whitespace == {" ", "\n"}

header == <<"T", "\n">>

continuationHeader == <<"T", "c", "\n">>

RECURSIVE Strings(_)
\* the strings over Alphabet of length n or less
Strings(n) ==
    IF n = 0 THEN {<<>>}
    ELSE LET shorter == Strings(n - 1)
         IN shorter \cup {Append(str, c) : str \in {x \in shorter : Len(x) = n - 1},
                                           c \in Alphabet}

RECURSIVE trimStart(_)
trimStart(str) ==
    IF str # <<>> /\ str[1] \in Whitespace THEN trimStart(Tail(str)) ELSE str

RECURSIVE trimEnd(_)
trimEnd(str) ==
    IF str # <<>> /\ str[Len(str)] \in Whitespace
    THEN trimEnd(SubSeq(str, 1, Len(str) - 1))
    ELSE str

\* String.prototype.trim
trim(str) == trimEnd(trimStart(str))

\* a match of /\n(?=###\s)/ at position p of str
HeadingBreak(str, p) ==
    /\ str[p] = "\n"
    /\ p + 2 <= Len(str)
    /\ str[p + 1] = "#"
    /\ str[p + 2] \in Whitespace

RECURSIVE splitAtHeadings(_)
\* str.split(/\n(?=###\s)/g): the pieces between the matches, matches removed
splitAtHeadings(str) ==
    LET breaks == {p \in 1..Len(str) : HeadingBreak(str, p)}
    IN IF breaks = {} THEN <<str>>
       ELSE LET p == CHOOSE q \in breaks : \A r \in breaks : q <= r
            IN <<SubSeq(str, 1, p - 1)>> \o splitAtHeadings(SubSeq(str, p + 1, Len(str)))

\* splitSummaryIntoSections: the trimmed, non-empty blocks of the trimmed summary
splitSummaryIntoSections(summary) ==
    LET trimmed == trim(summary)
        pieces == splitAtHeadings(trimmed)
        sections == SelectSeq([j \in 1..Len(pieces) |-> trim(pieces[j])],
                              LAMBDA section : section # <<>>)
    IN IF trimmed = <<>> THEN <<>>
       ELSE IF Len(sections) > 0 THEN sections ELSE <<trimmed>>

\* current.endsWith('\n') ? '' : '\n\n'
separator(current) ==
    IF current # <<>> /\ current[Len(current)] = "\n" THEN <<>> ELSE <<"\n", "\n">>

\* variant: every candidate is taken
fitsAlways(candidate, limit) == TRUE

\* candidate.length <= discordCharLimit
fits(candidate, limit) == Len(candidate) <= limit

\* variant: a section that does not fit is cut at the limit
continuationCut(section, i, limit) ==
    [text |-> SubSeq(continuationHeader \o section, 1, limit), parts |-> <<i>>]

\* current = `${continuationHeader}${section}`: section i starts a new message,
\* whole, whatever its length
continuation(section, i, limit) ==
    [text |-> continuationHeader \o section, parts |-> <<i>>]

RECURSIVE chunkLoop(_, _, _, _, _)
\* the loop of chunkSectionsForDiscord over the sections from index i on and the
\* push after it. A message is its text and, as bookkeeping, the indices of the
\* sections that were put into it (parts).
chunkLoop(sections, i, current, messages, limit) ==
    IF i > Len(sections)
    THEN IF current.text # header /\ current.text # continuationHeader
         THEN Append(messages, current)
         ELSE messages
    ELSE LET section == sections[i]
             candidate == current.text \o separator(current.text) \o section
         IN IF fits(candidate, limit)
            THEN chunkLoop(sections, i + 1,
                           [text |-> candidate, parts |-> Append(current.parts, i)],
                           messages, limit)
            ELSE chunkLoop(sections, i + 1, continuation(section, i, limit),
                           Append(messages, current), limit)

\* chunkSectionsForDiscord(title, recordedUsers, summary, discordCharLimit)
chunkSectionsForDiscord(summary, discordCharLimit) ==
    LET sections == splitSummaryIntoSections(summary)
        fullMessage == header \o summary
    IN IF Len(fullMessage) <= discordCharLimit
       THEN <<[text |-> fullMessage, parts |-> [j \in 1..Len(sections) |-> j]]>>
       ELSE chunkLoop(sections, 1, [text |-> header, parts |-> <<>>], <<>>,
                      discordCharLimit)

\* sendTranscriptAndSummary up to its first send: without a transcript channel
\* it returns, otherwise the summary is chunked with the limit of the call site
DeliveryStart(found) ==
    /\ delivery.pc = "called"
    /\ delivery' = IF found
                   THEN [delivery EXCEPT
                            !.pc = "summary",
                            !.messages = chunkSectionsForDiscord(delivery.summary, CharLimit)]
                   ELSE [delivery EXCEPT !.pc = "noChannel"]
    /\ UNCHANGED MainVars
    /\ UNCHANGED drainVars
    /\ UNCHANGED manager

\* await transcriptChannel.send(message) for the next summary message: a send
\* that throws ends the function in its catch block; after the last message
\* the function goes on to the transcript file
sendSummaryMessage(d, ok) ==
    IF ok
    THEN [d EXCEPT !.log = Append(@, [kind |-> "summary", index |-> d.next]),
                   !.next = @ + 1,
                   !.pc = IF d.next = Len(d.messages) THEN "file" ELSE @]
    ELSE [d EXCEPT !.pc = "caught"]

\* sendTranscriptAndSummary with all messages sent goes on to the file; with no
\* message to send it is there at once
DeliverySummary(ok) ==
    /\ delivery.pc = "summary"
    /\ delivery' = IF delivery.messages = <<>>
                   THEN [delivery EXCEPT !.pc = "file"]
                   ELSE sendSummaryMessage(delivery, ok)
    /\ UNCHANGED MainVars
    /\ UNCHANGED drainVars
    /\ UNCHANGED manager

\* the transcript file is written and sent as an attachment
DeliveryFile(ok) ==
    /\ delivery.pc = "file"
    /\ delivery' = IF ok
                   THEN [delivery EXCEPT !.pc = "returned",
                                         !.log = Append(@, [kind |-> "file", index |-> 0])]
                   ELSE [delivery EXCEPT !.pc = "caught"]
    /\ UNCHANGED MainVars
    /\ UNCHANGED drainVars
    /\ UNCHANGED manager

InitChunk ==
    /\ IdleRecording
    /\ budget = 0
    /\ manager = NoManager
    /\ \E summary \in Strings(MaxSummaryLen) :
           delivery = [NoDelivery EXCEPT !.pc = "called", !.summary = summary]

NextChunk ==
    \/ \E found \in BOOLEAN : DeliveryStart(found)
    \/ \E ok \in BOOLEAN : DeliverySummary(ok)
    \/ \E ok \in BOOLEAN : DeliveryFile(ok)

SpecChunk == InitChunk /\ [][NextChunk]_vars

\* ------------------------------------------- the chunked variant (Python)
TsVars == <<MainVars, drainVars, delivery>>

\* RecordingManager.is_recording
is_recording(m, g) == m.active_recordings[g]

\* RecordingManager.get_active_count
get_active_count(m) == Cardinality({g \in ManagerGuilds : m.active_recordings[g]})

\* ChunkedRecordingManager._start_new_chunk
start_new_chunk(m, g) ==
    IF ~m.active_recordings[g] THEN m
    ELSE [m EXCEPT !.chunks[g] = @ + 1, !.chunk_timers[g] = "pending"]

\* ChunkedRecordingManager.add_recording: the chunk list is created, the
\* parent stores the recording and creates the timeout task, the first chunk
\* starts
add_recording(m, g) ==
    start_new_chunk([m EXCEPT !.chunks[g] = 0,
                              !.active_recordings[g] = TRUE,
                              !.recording_timers[g] = "pending"], g)

\* super().stop_recording(guild_id) as the chunked manager calls it: the parent
\* method is a coroutine function and the call is not awaited, so a coroutine
\* object is created and returned and the parent's body (cancel the timeout
\* task, delete its entry, delete the recording) never runs
super_stop_recording(m, g) == m

\* ChunkedRecordingManager.stop_recording up to its first await: nothing for a
\* guild without a recording, otherwise the chunk timer is cancelled and the
\* final chunk is stopped and processed
stop_recording(m, g) ==
    IF ~m.active_recordings[g] THEN m
    ELSE [m EXCEPT !.chunk_timers[g] = "none", !.stopping[g] = @ + 1]

\* /record of the chunked variant: refused while the guild is recording or the
\* limit is reached, otherwise the handler awaits the voice connection
ManagerRecord(g) ==
    /\ ~manager.connecting[g]
    /\ ~is_recording(manager, g)
    /\ get_active_count(manager) < MaxConcurrentRecordings
    /\ manager' = [manager EXCEPT !.connecting[g] = TRUE]
    /\ UNCHANGED TsVars

\* the handler resumes after connect and respond and calls add_recording
ManagerRecordConnected(g) ==
    /\ manager.connecting[g]
    /\ manager' = add_recording([manager EXCEPT !.connecting[g] = FALSE], g)
    /\ UNCHANGED TsVars

\* _chunk_timeout after CHUNK_DURATION: the chunk is processed and, when the
\* guild is still recording, the next chunk starts
ManagerChunkTimeout(g) ==
    /\ manager.chunk_timers[g] = "pending"
    /\ manager.chunks[g] < MaxChunks
    /\ manager' = IF manager.active_recordings[g]
                   THEN start_new_chunk([manager EXCEPT !.chunk_timers[g] = "done"], g)
                   ELSE [manager EXCEPT !.chunk_timers[g] = "done"]
    /\ UNCHANGED TsVars

\* /stop_recording of the chunked variant, on a guild that is recording
ManagerStop(g) ==
    /\ is_recording(manager, g)
    /\ manager.stopping[g] + manager.completed[g] < MaxManagerStops
    /\ manager' = stop_recording(manager, g)
    /\ UNCHANGED TsVars

\* _recording_timeout after MAX_RECORDING_LENGTH: stop_recording when the guild
\* is still recording
ManagerRecordingTimeout(g) ==
    /\ manager.recording_timers[g] = "pending"
    /\ manager.stopping[g] + manager.completed[g] < MaxManagerStops
    /\ manager' = stop_recording([manager EXCEPT !.recording_timers[g] = "done"], g)
    /\ UNCHANGED TsVars

\* stop_recording resumes after its awaits (final chunk, wait for the chunks,
\* finalize) or in its except block: the parent's stop_recording is called
\* and, on the normal path, the chunk data is deleted; the call returns
ManagerStopReturns(g, raised) ==
    /\ manager.stopping[g] > 0
    /\ LET m == super_stop_recording(manager, g) IN
       manager' = [m EXCEPT !.stopping[g] = @ - 1,
                            !.completed[g] = @ + 1,
                            !.chunks[g] = IF raised THEN @ ELSE -1]
    /\ UNCHANGED TsVars

InitManager == Idle /\ budget = 0

NextManager ==
    \E g \in ManagerGuilds :
        \/ ManagerRecord(g)
        \/ ManagerRecordConnected(g)
        \/ ManagerChunkTimeout(g)
        \/ ManagerStop(g)
        \/ ManagerRecordingTimeout(g)
        \/ \E raised \in BOOLEAN : ManagerStopReturns(g, raised)

SpecManager == InitManager /\ [][NextManager]_vars

\* ================================================================== claims
SessionIds(g) == 1..Len(sessions[g])

StopsOf(g, sid) == {i \in 1..Len(stops[g]) : stops[g][i].sid = sid}

PendingStopTriggers(g) == Len(stopTimers[g]) + stopCmds[g] + Len(reconnects[g])

\* C1: however many stop triggers are raised for a session (delayed stop,
\* command, failed reconnect, shutdown), the session is finalized once: one call
\* of stopRecording gets past the registry guard, one finalization runs for the
\* session, and it drains the accumulator exactly once, after the settle wait.
C1_FinalizedExactlyOnce ==
    \A g \in Guilds : \A sid \in SessionIds(g) :
        LET d == sessions[g][sid] IN
        /\ d.stopCalls <= 1
        /\ Cardinality(StopsOf(g, sid)) <= d.stopCalls
        /\ d.drains = IF d.stopCalls = 1 /\ \A i \in StopsOf(g, sid) : stops[g][i].pc # "settle"
                      THEN 1 ELSE 0

\* a session that has been drained while two more stop triggers are pending
C1_Witness ==
    \E g \in Guilds : \E sid \in SessionIds(g) :
        /\ sessions[g][sid].drains = 1
        /\ activeRecordings[g] = 0
        /\ PendingStopTriggers(g) >= 2

\* C2: a guild has at most one session: a start trigger that arrives once a
\* start has begun creates no second session, does not replace the data of the
\* first (a session leaves the registry only through stopRecording), and
\* registers no second set of listeners on the connection.
C2_SecondStartIsNoOp ==
    \A g \in Guilds :
        /\ \A sid \in SessionIds(g) :
               sid # activeRecordings[g] => sessions[g][sid].stopCalls >= 1
        /\ \A k \in 1..Len(connections[g]) : Len(connections[g][k].listeners) <= 1

\* C3: the users being recorded are always a subset of the recordable users of
\* the session.
C3_RecordingWithinRecordable ==
    \A g \in Guilds : \A sid \in SessionIds(g) :
        sessions[g][sid].recording \subseteq sessions[g][sid].recordable

\* a session records a speaker while a member of its channel is not recordable
C3_Witness ==
    \E g \in Guilds : \E sid \in SessionIds(g) :
        /\ sessions[g][sid].recording # {}
        /\ \E u \in Users : /\ voice[g][u] = sessions[g][sid].channelId
                            /\ u \notin sessions[g][sid].recordable

\* C4: stopRecording is idempotent: once it has been called for a session the
\* session is out of the registry (isRecording is false until another session
\* starts), and a call for a guild that is not recording changes nothing of the
\* registry, the sessions, the connections, the finalizations or the accumulator.
C4_StopIdempotent ==
    [][/\ \A g \in Guilds : \A sid \in 1..Len(sessions'[g]) :
              sessions'[g][sid].stopCalls >= 1 =>
                  (activeRecordings'[g] = 0 \/ activeRecordings'[g] > sid)
       /\ \A g \in Guilds :
              (/\ Len(stopTimers'[g]) < Len(stopTimers[g]) \/ stopCmds'[g] < stopCmds[g]
               /\ ~isRecording(g)) =>
                  UNCHANGED <<activeRecordings, sessions, connections, voiceConnection,
                              stops, transcripts, streams>>]_vars

\* a finalization has completed and another stop call for the guild is about to run
C4_Witness ==
    \E g \in Guilds : \E sid \in SessionIds(g) :
        /\ sessions[g][sid].stopCalls = 1
        /\ sessions[g][sid].drains = 1
        /\ StopsOf(g, sid) = {}
        /\ ~isRecording(g)
        /\ Len(stopTimers[g]) + stopCmds[g] >= 1

\* C5: when startManualRecording returns true the guild is recording.
C5_StartSuccessMeansRecording ==
    \A g \in Guilds : startResult[g].value = "true" => startResult[g].recording

\* C6: at most MaxConcurrentRecordings sessions are active across all guilds.
C6_AtMostMaxConcurrent ==
    Cardinality(getActiveRecordings) <= MaxConcurrentRecordings

\* C7: while a guild is recording, a member who joins the recorded channel is
\* added to the recordable users of the session, and a member who leaves it is
\* removed from both the recordable users and the users being recorded.
C7_MembershipTracked ==
    [][\A g \in Guilds : \A u \in Users :
          LET a == activeRecordings[g] IN
          (a # 0 /\ a = activeRecordings'[g]) =>
              /\ (voice[g][u] = NoChannel /\ voice'[g][u] = sessions[g][a].channelId)
                     => u \in sessions'[g][a].recordable
              /\ (voice[g][u] = sessions[g][a].channelId /\ voice'[g][u] = NoChannel)
                     => u \notin (sessions'[g][a].recordable \cup sessions'[g][a].recording)]_vars

\* C8: when a session is stored after the transport has become ready, its
\* recordable users are the human members present in the channel at that instant.
C8_RecordableIsPresentMembers ==
    [][\A g \in Guilds : \A sid \in 1..Len(sessions'[g]) :
          sid > Len(sessions[g]) =>
              sessions'[g][sid].recordable =
                  HumanMembers(voice'[g], sessions'[g][sid].channelId)]_vars

\* the registered session of the guild has reached its stop threshold
StopDue(g) ==
    /\ activeRecordings[g] # 0
    /\ LET d == sessions[g][activeRecordings[g]] IN
       StopThresholdReached(d.isManualRecording,
                            Cardinality(HumanMembers(voice[g], d.channelId)))

\* C9: a session whose channel holds at most one human member (automatic) or
\* none (manual) gets finalized, also when the members left while the transport
\* was still connecting: while the process runs, such a session always has a
\* stop of its guild pending (delayed stop, stop command or reconnect race).
C9_StopDueGetsStopped ==
    \A g \in Guilds : (StopDue(g) /\ proc = "running") => PendingStopTriggers(g) >= 1

\* C10: a session whose reconnect attempt fails is finalized: no session leaves
\* the registry other than through stopRecording, and the stop started by the
\* failed reconnect drains the accumulator once its settle wait is over.
C10_FailedReconnectFinalizes ==
    \A g \in Guilds :
        /\ \A sid \in SessionIds(g) :
               (sid = Len(sessions[g]) /\ activeRecordings[g] # sid)
                   => sessions[g][sid].stopCalls = 1
        /\ \A i \in 1..Len(stops[g]) :
               (stops[g][i].by = "reconnect" /\ stops[g][i].pc # "settle")
                   => sessions[g][stops[g][i].sid].drains = 1

\* the stop started by a failed reconnect has drained the accumulator
C10_Witness ==
    \E g \in Guilds : \E i \in 1..Len(stops[g]) :
        /\ stops[g][i].by = "reconnect"
        /\ stops[g][i].pc \in {"notice", "summary", "title", "send"}
        /\ sessions[g][stops[g][i].sid].drains = 1
        /\ activeRecordings[g] = 0

\* the start attempts of the guild that wait for the transport to become ready
WaitingStarts(g, st) == {i \in 1..Len(st[g]) : st[g][i].pc \in {"ready", "cmdReady"}}

\* a waiting start attempt ends in this step without the transport being ready
StartTimeoutStep(g) ==
    /\ Len(starts'[g]) < Len(starts[g])
    /\ Cardinality(WaitingStarts(g, starts')) < Cardinality(WaitingStarts(g, starts))

\* C11: a start attempt whose transport-ready wait times out ends in an explicit
\* failure (startManualRecording returns false) and leaves nothing behind: the
\* registry, the stored sessions and the listeners of the connections are as
\* they were before the timeout.
C11_TimeoutLeavesNoSession ==
    [][\A g \in Guilds :
          StartTimeoutStep(g) =>
              /\ UNCHANGED <<activeRecordings, sessions, connections>>
              /\ \A i \in WaitingStarts(g, starts) :
                     (/\ starts[g][i].kind = "manual"
                      /\ starts[g][i].pc = "ready"
                      /\ \A j \in 1..Len(starts'[g]) : starts'[g][j] # starts[g][i])
                         => startResult'[g].value = "false"]_vars

\* a manual start has timed out: failure returned, no session, no listener
C11_Witness ==
    \E g \in Guilds :
        /\ startResult[g].value = "false"
        /\ sessions[g] = <<>>
        /\ activeRecordings[g] = 0
        /\ \E k \in 1..Len(connections[g]) :
               connections[g][k].status = "connecting" /\ connections[g][k].listeners = <<>>

\* stopRecording has been called for the session and has returned
StopReturned(g, sid) == sessions[g][sid].stopCalls >= 1 /\ StopsOf(g, sid) = {}

\* C12: when summarization fails for a non-empty transcript the pipeline still
\* goes on to deliver the raw transcript and the transcript file, and the session
\* is out of the registry afterwards.
C12_SummaryFailureStillDelivers ==
    \A g \in Guilds : \A sid \in SessionIds(g) :
        (StopReturned(g, sid) /\ sessions[g][sid].summary = "null") =>
            /\ "sendTranscriptAndSummary" \in sessions[g][sid].requests
            /\ activeRecordings[g] # sid

\* C13: when the drained document is empty the pipeline sends a "no speech
\* detected" notice and runs no downstream step: no summarization request, no
\* title request, no delivery of summary or transcript.
C13_EmptyTranscriptNotice ==
    \A g \in Guilds : \A sid \in SessionIds(g) :
        sessions[g][sid].transcript = "null" =>
            /\ sessions[g][sid].requests \cap
                   {"generateSummary", "generateTitle", "sendTranscriptAndSummary"} = {}
            /\ sessions[g][sid].delivered \subseteq {"noSpeech"}

\* C14: a failed title request yields the fallback title and never aborts the
\* pipeline: sendTranscriptAndSummary is called with the fallback title, and
\* after the stop has returned nothing but summary and transcript was sent.
C14_TitleFailureContinues ==
    \A g \in Guilds : \A sid \in SessionIds(g) :
        sessions[g][sid].title = "fallback" =>
            /\ "sendTranscriptAndSummary" \in sessions[g][sid].requests
            /\ "sendStopRecordingNotification" \notin sessions[g][sid].requests
            /\ sessions[g][sid].delivered \subseteq {"summary", "file"}

\* summary and transcript file delivered under the fallback title
C14_Witness ==
    \E g \in Guilds : \E sid \in SessionIds(g) :
        /\ sessions[g][sid].title = "fallback"
        /\ StopReturned(g, sid)
        /\ sessions[g][sid].delivered = {"summary", "file"}

\* C15: cleanup is unconditional: once stopRecording has returned for a session,
\* by whatever path, the session is out of the registry, its recording set is
\* empty and its connection is destroyed.
C15_CleanupUnconditional ==
    \A g \in Guilds : \A sid \in SessionIds(g) :
        StopReturned(g, sid) =>
            /\ activeRecordings[g] # sid
            /\ sessions[g][sid].recording = {}
            /\ connections[g][sessions[g][sid].connection].status = "destroyed"

\* C16: connection.destroy() is invoked at most once on every connection.
C16_DestroyedOnce ==
    \A g \in Guilds : \A k \in 1..Len(connections[g]) :
        connections[g][k].destroyCalls <= 1

\* C20: the cleanup body of a listening stream runs at most once, whatever
\* termination events arrive (pipeline end, provider Close, audio end, signals).
C20_CleanupAtMostOnce ==
    \A g \in Guilds : \A i \in 1..Len(streams[g]) :
        /\ streams[g][i].cleanups <= 1
        /\ streams[g][i].cleanups = (IF streams[g][i].hasCleanedUp THEN 1 ELSE 0)
        /\ streams[g][i].signals >= 1 => streams[g][i].hasCleanedUp

\* three termination events have reached one stream and its body ran once
C20_Witness ==
    \E g \in Guilds : \E i \in 1..Len(streams[g]) :
        /\ streams[g][i].signals >= 3
        /\ streams[g][i].closed
        /\ streams[g][i].cleanups = 1

\* the fragment texts of a document, in document order
TextPieces(doc) == SelectSeq(doc, LAMBDA piece : piece.kind = "text")

\* C17 as stated: a call after fragments were appended returns a document with
\* the text of every appended fragment exactly once, and a call that follows
\* with no append in between returns the empty result.
C17_DrainSingleUseVerbatim ==
    \A i \in 1..Len(results) :
        LET r == results[i]
            t == TextPieces(r.document) IN
        /\ r.fragments = <<>> => r.null
        /\ r.fragments # <<>> =>
               /\ ~r.null
               /\ Len(t) = Len(r.fragments)
               /\ \A f \in 1..Len(r.fragments) :
                      Cardinality({j \in 1..Len(t) : t[j].n = r.fragments[f].n
                                                      /\ t[j].text = r.fragments[f].text}) = 1

\* C17 amended: as above, where the text of a fragment appears in the document
\* with every occurrence of "wap" (in any case) replaced by "Whop".
C17_DrainSingleUse ==
    \A i \in 1..Len(results) :
        LET r == results[i]
            t == TextPieces(r.document) IN
        /\ r.fragments = <<>> => r.null
        /\ r.fragments # <<>> =>
               /\ ~r.null
               /\ Len(t) = Len(r.fragments)
               /\ \A f \in 1..Len(r.fragments) :
                      Cardinality({j \in 1..Len(t) : t[j].n = r.fragments[f].n
                                                      /\ t[j].text = replaceWAP(r.fragments[f].text)}) = 1

\* two fragments were drained, one of them with "wap" in it, and the call that
\* followed returned the empty result
C17_Witness ==
    /\ Len(results) = 2
    /\ Len(results[1].fragments) >= 2
    /\ \E f \in 1..Len(results[1].fragments) : results[1].fragments[f].text = "swap"
    /\ results[2].null

\* C18: the fragments appear in the document by timestamp ascending, fragments
\* with equal timestamps in the order in which they were appended.
C18_TiesByInsertionOrder ==
    \A i \in 1..Len(results) :
        LET r == results[i]
            t == TextPieces(r.document) IN
        \A a, b \in 1..Len(t) :
            a < b =>
                LET fa == r.fragments[t[a].n]
                    fb == r.fragments[t[b].n] IN
                \/ fa.timestamp < fb.timestamp
                \/ fa.timestamp = fb.timestamp /\ fa.n < fb.n

\* C19: a header stands before the first fragment and exactly where the speaker
\* of a fragment differs from the speaker of the fragment before it.
C19_HeaderOnSpeakerChange ==
    \A i \in 1..Len(results) :
        LET doc == results[i].document IN
        doc # <<>> =>
            /\ doc[1].kind = "header"
            /\ doc[Len(doc)].kind = "text"
            /\ \A p \in 2..Len(doc) :
                   doc[p].kind = "text" =>
                       IF doc[p - 1].kind = "header"
                       THEN p = 2 \/ (doc[p - 2].kind = "text"
                                      /\ doc[p - 2].userId # doc[p].userId)
                       ELSE doc[p - 1].userId = doc[p].userId

\* C21: finish() is invoked at most once on the provider connection of every
\* stream, in whatever order the audio end, the pipeline callback and the
\* provider Close arrive.
C21_FinishAtMostOnce ==
    \A g \in Guilds : \A i \in 1..Len(streams[g]) : streams[g][i].finishCalls <= 1

\* C22: a speaking-start event for a speaker who is being recorded creates no
\* stream, and a speaker has at most one provider connection that has not yet
\* closed in a session, also when the speaker starts speaking again while the
\* connection of the previous stream is still finishing.
C22_OneConnectionPerSpeaker ==
    \A g \in Guilds : \A sid \in SessionIds(g) : \A u \in Users :
        Cardinality({i \in 1..Len(streams[g]) :
                        /\ streams[g][i].sid = sid
                        /\ streams[g][i].user = u
                        /\ ~streams[g][i].closed}) <= 1

\* a stream of the guild whose provider connection is open and whose cleanup
\* latch is still open can have produced fragment f
LiveProducer(g, f) ==
    \E i \in 1..Len(streams[g]) :
        /\ streams[g][i].sid = f.sid
        /\ streams[g][i].user = f.userId
        /\ getReadyState(streams[g][i]) = 1
        /\ ~streams[g][i].hasCleanedUp

\* C23: a transcript that a provider connection delivers after the cleanup
\* latch of its stream has closed is discarded: every fragment appended to the
\* accumulator comes from a stream whose latch is open.
C23_LateTranscriptDiscarded ==
    [][\A g \in Guilds :
          Len(transcripts'[g]) > Len(transcripts[g]) =>
              LiveProducer(g, transcripts'[g][Len(transcripts'[g])])]_vars

\* C24: the accumulator belongs to one session: the document drained for a
\* session holds only fragments produced by the streams of that session.
C24_AccumulatorPerSession ==
    \A g \in Guilds : \A sid \in SessionIds(g) : sessions[g][sid].sources \subseteq {sid}

\* C25: the frames sent to the provider are an order-preserving subsequence of
\* the frames received from the audio subscription: the sent frame numbers
\* increase strictly (no frame twice, no reordering), every sent frame was
\* received, and a frame that arrived while the provider connection was not
\* ready is in no later send.
C25_FramesInOrderNoBuffering ==
    \A g \in Guilds : \A i \in 1..Len(streams[g]) :
        LET st == streams[g][i] IN
        /\ \A j \in 1..Len(st.sent) :
               /\ st.sent[j] \in 1..Len(st.received)
               /\ st.received[st.sent[j]] = 1
        /\ \A j, k \in 1..Len(st.sent) : j < k => st.sent[j] < st.sent[k]

\* a frame arrived before the connection was open, one was sent, and one arrived
\* after the connection had closed: only the second is in the sends
C25_Witness ==
    \E g \in Guilds : \E i \in 1..Len(streams[g]) :
        /\ streams[g][i].received = <<0, 1, 3>>
        /\ streams[g][i].sent = <<2>>

RECURSIVE Flatten(_)
\* the concatenation of a sequence of sequences
Flatten(seqs) == IF seqs = <<>> THEN <<>> ELSE seqs[1] \o Flatten(Tail(seqs))

RECURSIVE ContainsInOrder(_, _, _)
\* the strings of parts occur in text from position from on, whole, one after
\* the other and without overlap
ContainsInOrder(text, parts, from) ==
    IF parts = <<>> THEN TRUE
    ELSE LET n == Len(parts[1])
             at == {p \in from..(Len(text) - n + 1) : SubSeq(text, p, p + n - 1) = parts[1]}
         IN /\ at # {}
            /\ ContainsInOrder(text, Tail(parts),
                               (CHOOSE p \in at : \A q \in at : p <= q) + n)

\* the summary was chunked by the call
Chunked == delivery.pc \in {"summary", "file", "returned", "caught"}

\* C26: chunkSectionsForDiscord never splits a section: the sections of the
\* summary are distributed over the returned messages in their order, each in
\* exactly one message, and the text of a message contains its sections whole.
C26_SectionsWhole ==
    Chunked =>
        LET sections == splitSummaryIntoSections(delivery.summary)
            messages == delivery.messages IN
        /\ Flatten([m \in 1..Len(messages) |-> messages[m].parts])
               = [j \in 1..Len(sections) |-> j]
        /\ \A m \in 1..Len(messages) :
               ContainsInOrder(messages[m].text,
                               [j \in 1..Len(messages[m].parts) |->
                                    sections[messages[m].parts[j]]], 1)

\* a summary of three sections was chunked into two messages of two and one
C26_Witness ==
    /\ Chunked
    /\ Len(delivery.messages) = 2
    /\ Len(delivery.messages[1].parts) = 2
    /\ Len(delivery.messages[2].parts) = 1

DeliveryEnded ==
    \/ delivery.pc = "returned"
    \/ delivery.pc = "caught" /\ delivery.next <= Len(delivery.messages)

\* C28: delivery sends the summary messages in order and then exactly one
\* transcript file: when the call has ended the file is the last thing sent, it
\* was sent once, also when the send of a summary message failed, and without
\* such a failure every summary message was sent before it, in order.
C28_SummaryThenFile ==
    DeliveryEnded =>
        LET log == delivery.log
            n == Len(log) IN
        /\ n >= 1
        /\ log[n].kind = "file"
        /\ \A j \in 1..(n - 1) : log[j].kind = "summary" /\ log[j].index = j
        /\ delivery.pc = "returned" => n = Len(delivery.messages) + 1

\* everything the handlers keep for a guild
GuildVars(g) ==
    <<voice[g], activeRecordings[g], sessions[g], connections[g], voiceConnection[g],
      starts[g], stopTimers[g], stopCmds[g], stops[g], reconnects[g], disconnects[g],
      speaks[g], streams[g], transcripts[g], startResult[g], unknownCommands[g]>>

\* this step is the SIGTERM handler, which works on all guilds
ProcessWide ==
    \/ proc = "running" /\ proc' = "stopping"
    \/ proc = "stopping" /\ proc' = "exited" /\ reconnects' = reconnects

\* this step is a handler working on guild g
GuildOp(g) == ~ProcessWide /\ GuildVars(g)' # GuildVars(g)

\* C29: an operation on guild A, failures and exceptions inside it included,
\* leaves guild B as it is: B's registry entry, its sessions with their
\* recordable and recording sets and its accumulated fragments are unchanged,
\* and a session of B that is active stays in a running process.
C29_GuildsIsolated ==
    [][\A a \in IsoGuilds : \A b \in IsoGuilds \ {a} :
          GuildOp(a) =>
              /\ activeRecordings'[b] = activeRecordings[b]
              /\ sessions'[b] = sessions[b]
              /\ transcripts'[b] = transcripts[b]
              /\ activeRecordings[b] # 0 => proc' # "exited"]_vars

\* C30: a session that has lasted longer than the maximum recording length, or
\* whose transport connection has gone stale, is eventually stopped.
C30_WatchdogStops ==
    \A g \in Guilds : \A sid \in 1..MaxSessions :
        (/\ sid <= Len(sessions[g])
         /\ activeRecordings[g] = sid
         /\ \/ sessions[g][sid].overdue
            \/ connections[g][sessions[g][sid].connection].status = "disconnected")
            ~> (sid <= Len(sessions[g]) /\ sessions[g][sid].stopCalls >= 1)

\* C31: the /cancel command on a guild with an active recording stops the
\* recording: after the command has been handled the guild is not recording,
\* the connection of the session is destroyed, and neither a transcript nor a
\* summary of the session is generated or delivered.
C31_CancelStopsWithoutTranscript ==
    [][\A g \in Guilds :
          (unknownCommands'[g] > unknownCommands[g] /\ isRecording(g)) =>
              LET sid == activeRecordings[g] IN
              /\ activeRecordings'[g] = 0
              /\ connections'[g][sessions[g][sid].connection].status = "destroyed"
              /\ sessions'[g][sid].drains = 0]_vars

\* C32: in the chunked variant, when stop_recording(guild) has completed for an
\* active guild the guild is no longer in active_recordings (is_recording is
\* false, get_active_count went down by one) and its session timeout timer is
\* cancelled; a stop_recording for a guild that is not recording is a no-op.
C32_ChunkedStopRemoves ==
    [][\A g \in ManagerGuilds :
          /\ manager'.completed[g] > manager.completed[g] =>
                 /\ ~is_recording(manager', g)
                 /\ get_active_count(manager') = get_active_count(manager) - 1
                 /\ manager'.recording_timers[g] # "pending"
          /\ ~is_recording(manager, g) => stop_recording(manager, g) = manager]_vars

\* C33: an automatic session begins connecting only when a join event of a
\* non-bot member is handled, the joined channel then holds at least
\* AutoStartThreshold human members and the guild has no session in the
\* registry; every automatic session was started with that many human members;
\* and a voice-state event of a bot starts and stops nothing.
C33_AutoStartOnHumanJoin ==
    [][\A g \in Guilds :
          /\ Cardinality({i \in 1..Len(starts'[g]) : starts'[g][i].kind = "auto"})
                 > Cardinality({i \in 1..Len(starts[g]) : starts[g][i].kind = "auto"}) =>
                 LET ch == starts'[g][Len(starts'[g])].channelId IN
                 /\ \E u \in Users : voice'[g][u] # voice[g][u] /\ voice'[g][u] = ch
                 /\ Cardinality({u \in Users : voice'[g][u] = ch}) >= AutoStartThreshold
                 /\ activeRecordings[g] = 0
                 /\ voiceConnection'[g] # 0
          /\ \A sid \in SessionIds(g) :
                 ~sessions[g][sid].isManualRecording =>
                     Cardinality(sessions[g][sid].recordable \cap Users) >= AutoStartThreshold
          /\ (\E b \in Bots : voice'[g][b] # voice[g][b]) =>
                 UNCHANGED <<activeRecordings, sessions, starts, stopTimers, stops,
                             connections, voiceConnection>>]_vars

\* an automatic session is registered with a bot in its channel: it is the only
\* session of the guild and no other connection was created
C33_Witness ==
    \E g \in Guilds :
        /\ activeRecordings[g] # 0
        /\ ~sessions[g][activeRecordings[g]].isManualRecording
        /\ \E b \in Bots : voice[g][b] = sessions[g][activeRecordings[g]].channelId
        /\ Len(sessions[g]) = 1
        /\ Len(connections[g]) = 1

\* C34: a member-leave event handled while the guild has a session schedules a
\* stop if and only if the left channel is the recorded channel and the human
\* members remaining in it are 0 for a manual session, at most 1 for an
\* automatic one; otherwise the event changes nothing. No delayed stop is ever
\* scheduled without that condition.
C34_LeaveSchedulesStop ==
    [][\A g \in Guilds :
          /\ \A u \in Users : \A old \in AutoChannels :
                 (voice[g][u] = old /\ voice'[g][u] # old /\ activeRecordings[g] # 0) =>
                     LET d == sessions[g][activeRecordings[g]]
                         remaining == Cardinality({m \in Users : voice'[g][m] = old})
                         due == /\ old = d.channelId
                                /\ IF d.isManualRecording THEN remaining = 0
                                                           ELSE remaining <= 1
                     IN /\ due => Len(stopTimers'[g]) = Len(stopTimers[g]) + 1
                        /\ ~due => stopTimers'[g] = stopTimers[g]
                        /\ UNCHANGED <<activeRecordings, sessions, starts, stops,
                                        connections, voiceConnection>>
          /\ Len(stopTimers'[g]) > Len(stopTimers[g]) =>
                 /\ activeRecordings'[g] # 0
                 /\ LET d == sessions'[g][activeRecordings'[g]]
                         count == Cardinality({m \in Users : voice'[g][m] = d.channelId})
                    IN IF d.isManualRecording THEN count = 0 ELSE count <= 1]_vars

\* a member moved from the recorded channel of an automatic session to the
\* other channel: one member remains and the delayed stop is scheduled
C34_Witness ==
    \E g \in Guilds :
        /\ activeRecordings[g] # 0
        /\ Len(stopTimers[g]) = 1
        /\ LET d == sessions[g][activeRecordings[g]] IN
            /\ ~d.isManualRecording
            /\ Cardinality({m \in Users : voice[g][m] = d.channelId}) = 1
            /\ \E m \in Users : voice[g][m] \in AutoChannels \ {d.channelId}

\* C35: once stopRecording has begun for a session no stream and no provider
\* connection is created for it any more, also when a speaking-start handler
\* of the session was suspended at an await when the stop began: every stream
\* is created for a session that has not been stopped.
C35_NoStreamAfterStop ==
    [][\A g \in Guilds :
          Len(streams'[g]) > Len(streams[g]) =>
              sessions[g][streams'[g][Len(streams'[g])].sid].stopCalls = 0]_vars

\* C36: a speaker is in the recording set only while a stream for that speaker
\* exists or is being set up: when the setup fails after recording.add (no
\* transcript channel, webhook error, createListeningStream throwing) the
\* speaker is removed from recording again. A stream exists while it has not
\* run its cleanup; one is being set up while a speaking-start handler for the
\* speaker is past recording.add and has not returned.
C36_RecordingMeansStream ==
    \A g \in Guilds : \A sid \in SessionIds(g) : \A u \in sessions[g][sid].recording :
        \/ \E i \in 1..Len(streams[g]) :
               /\ streams[g][i].sid = sid
               /\ streams[g][i].user = u
               /\ ~streams[g][i].hasCleanedUp
        \/ \E i \in 1..Len(speaks[g]) :
               /\ speaks[g][i].sid = sid
               /\ speaks[g][i].user = u
               /\ speaks[g][i].pc \in {"channel", "webhook"}

\* C37: every provider connection opened by a stream is eventually finished by
\* the bot once the audio of the stream has ended, also when the audio ended
\* (and cleanup ran) before the connection reported Open.
C37_ConnectionFinished ==
    \A g \in Guilds : \A i \in 1..SpeakEvents :
        (i <= Len(streams[g]) /\ streams[g][i].ended /\ streams[g][i].open)
            ~> (i <= Len(streams[g]) /\ streams[g][i].finishCalls >= 1)

\* C38: the delayed stop scheduled by a member-leave event finalizes only the
\* session that was recording when the leave was handled, never a newer session
\* of the guild, and not when the member count of the recorded channel has
\* risen above the stop threshold again before the timer fires.
C38_DelayedStopStillDue ==
    [][\A g \in Guilds :
          (Len(stopTimers'[g]) < Len(stopTimers[g]) /\ Len(stops'[g]) > Len(stops[g])) =>
              LET sid == stops'[g][Len(stops'[g])].sid
                  d == sessions[g][sid]
                  count == Cardinality({m \in Users : voice[g][m] = d.channelId})
              IN /\ sid = Head(stopTimers[g])
                 /\ IF d.isManualRecording THEN count = 0 ELSE count <= 1]_vars

\* C39: every message returned by chunkSectionsForDiscord for a summary that
\* has content carries content: no message is a header alone, the first
\* message begins with the plain header and every later one with the
\* continuation header.
C39_MessagesCarryContent ==
    (Chunked /\ splitSummaryIntoSections(delivery.summary) # <<>>) =>
        LET messages == delivery.messages
            startsWith(str, prefix) ==
                Len(prefix) <= Len(str) /\ SubSeq(str, 1, Len(prefix)) = prefix
        IN
        \A m \in 1..Len(messages) :
            /\ messages[m].text # header
            /\ messages[m].text # continuationHeader
            /\ messages[m].parts # <<>>
            /\ IF m = 1
               THEN startsWith(messages[m].text, header)
               ELSE startsWith(messages[m].text, continuationHeader)

\* C40: a failed start attempt destroys the connection it joined: a guild with
\* a live voice connection created by a start attempt has a session in the
\* registry or a start attempt in progress.
C40_FailedStartDestroysConnection ==
    \A g \in Guilds :
        (/\ voiceConnection[g] # 0
         /\ connections[g][voiceConnection[g]].status # "destroyed")
            => (activeRecordings[g] # 0 \/ starts[g] # <<>>)

====
